---- MODULE Spec2Model ----
(***************************************************************************)
(* Legal document generator: the tool server of main.py (five module-level *)
(* configuration dictionaries mutated by tools), the REST session store of *)
(* app.py, and the five document generators (privacy_generator.py,         *)
(* tos_generator.py, cookie_generator.py, eula_generator.py,               *)
(* refund_generator.py).                                                   *)
(*                                                                         *)
(* Python values are tagged records (NONE, B, S, I, L) so that None, "",   *)
(* False, [] and an absent key stay distinct.  A text is the sequence of   *)
(* its lines; a line keeps its markdown prefix as a kind and its content   *)
(* as spans (bold or plain), so "- **Email:** a@b" is                       *)
(* Ln("li", <<Bd("Email:"), T(" a@b")>>).  Static prose paragraphs of the  *)
(* templates are shortened; every heading, every interpolated value and    *)
(* every conditionally emitted line is kept.                               *)
(***************************************************************************)
EXTENDS Integers, Sequences, FiniteSets, TLC

VARIABLES
    policy_config,   \* main.py: privacy policy configuration dictionary
    tos_config,      \* main.py: terms of service configuration dictionary
    cookie_config,   \* main.py: cookie policy configuration dictionary
    eula_config,     \* main.py: EULA configuration dictionary
    refund_config,   \* main.py: refund policy configuration dictionary
    sessions,        \* app.py: session id -> flat configuration dictionary
    clock,           \* wall clock read by datetime.now()
    call,            \* the operation invoked last, with its arguments
    result,          \* what that operation returned (or the error it raised)
    written,         \* the files that operation wrote with write_text
    ncalls,          \* how many operations have been handled (bounds the exploration)
    g_doc,           \* generator harness: the document type under test
    g_cfg,           \* generator harness: the configuration passed in
    g_edited,        \* generator harness: the keys edited so far
    r_text           \* converter harness: the markdown text passed in

vars == <<policy_config, tos_config, cookie_config, eula_config, refund_config,
          sessions, clock, call, result, written, ncalls, g_doc, g_cfg, g_edited,
          r_text>>

main_vars == <<policy_config, tos_config, cookie_config, eula_config, refund_config>>

----------------------------------------------------------------------------
(* Python values *)

NONE == [t |-> "none"]
B(b) == [t |-> "bool", v |-> b]
S(s) == [t |-> "str", v |-> s]
I(n) == [t |-> "int", v |-> n]
L(l) == [t |-> "list", v |-> l]

\* bool(v): the truth value Python gives v in `if v`, `v or d`, `not v`
Truthy(v) ==
    CASE v.t = "none" -> FALSE
      [] v.t = "bool" -> v.v
      [] v.t = "str"  -> v.v # ""
      [] v.t = "int"  -> v.v # 0
      [] v.t = "list" -> v.v # <<>>

\* config.get(key)
Get(config, key) == IF key \in DOMAIN config THEN config[key] ELSE NONE

\* config.get(key, default)
GetD(config, key, default) == IF key \in DOMAIN config THEN config[key] ELSE default

\* a or b
Or(a, b) == IF Truthy(a) THEN a ELSE b

\* isinstance(v, bool), isinstance(v, list)
IsBool(v) == v.t = "bool"
IsList(v) == v.t = "list"

RECURSIVE JoinStr(_, _)
\* sep.join(list of str)
JoinStr(l, sep) ==
    IF l = <<>> THEN ""
    ELSE IF Len(l) = 1 THEN l[1]
    ELSE l[1] \o sep \o JoinStr(Tail(l), sep)

\* f"{v}": str(v) of a Python value
Str(v) ==
    CASE v.t = "none" -> "None"
      [] v.t = "bool" -> IF v.v THEN "True" ELSE "False"
      [] v.t = "str"  -> v.v
      [] v.t = "int"  -> ToString(v.v)
      [] v.t = "list" -> "[" \o JoinStr(v.v, ", ") \o "]"

\* dictionary update config[key] = value (adds the key when it is absent)
SetKey(config, key, value) ==
    [k \in (DOMAIN config) \cup {key} |-> IF k = key THEN value ELSE config[k]]

----------------------------------------------------------------------------
(* Default configurations *)

\* main.py:40-127  policy_config at module load
Default_policy_config ==
    [
      platform_type |-> NONE, website_url |-> NONE, website_name |-> NONE, app_name |-> NONE,
      business_type |-> NONE, company_name |-> NONE, company_address |-> NONE, country |-> NONE,
      effective_date |-> NONE, contact_email |-> NONE, contact_phone |-> NONE,
      contact_address |-> NONE, collects_name |-> B(FALSE), collects_email |-> B(FALSE),
      collects_phone |-> B(FALSE), collects_address |-> B(FALSE),
      collects_billing_address |-> B(FALSE), collects_job_title |-> B(FALSE),
      collects_payment_info |-> B(FALSE), collects_age |-> B(FALSE),
      collects_password |-> B(FALSE), collects_username |-> B(FALSE), uses_cookies |-> B(FALSE),
      uses_web_beacons |-> B(FALSE), uses_local_storage |-> B(FALSE), uses_sessions |-> B(FALSE),
      uses_google_maps |-> B(FALSE), social_login_facebook |-> B(FALSE),
      social_login_google |-> B(FALSE), social_login_twitter |-> B(FALSE),
      social_login_github |-> B(FALSE), social_login_linkedin |-> B(FALSE),
      has_email_newsletter |-> B(FALSE), uses_analytics |-> B(FALSE), analytics_provider |-> NONE,
      displays_ads |-> B(FALSE), uses_facebook_pixel |-> B(FALSE), uses_retargeting |-> B(FALSE),
      requests_geolocation |-> B(FALSE), requests_contacts |-> B(FALSE),
      requests_camera |-> B(FALSE), requests_photo_gallery |-> B(FALSE),
      requests_microphone |-> B(FALSE), requests_push_notifications |-> B(FALSE),
      accepts_payments |-> B(FALSE), payment_type |-> NONE, payment_processors |-> L(<<>>),
      gdpr_compliant |-> B(FALSE), ccpa_compliant |-> B(FALSE), caloppa_compliant |-> B(FALSE),
      coppa_compliant |-> B(FALSE), allows_children_under_13 |-> B(FALSE),
      shares_with_third_parties |-> B(FALSE), third_party_categories |-> L(<<>>),
      sells_data |-> B(FALSE), allows_data_access |-> B(TRUE), allows_data_deletion |-> B(TRUE),
      allows_data_portability |-> B(FALSE), allows_opt_out |-> B(TRUE),
      data_retention_period |-> NONE, uses_encryption |-> B(FALSE), uses_ssl |-> B(FALSE),
      has_security_measures |-> B(FALSE)
    ]

\* main.py:130-174  tos_config at module load
Default_tos_config ==
    [
      platform_type |-> NONE, website_url |-> NONE, website_name |-> NONE, app_name |-> NONE,
      company_name |-> NONE, company_address |-> NONE, country |-> NONE, contact_email |-> NONE,
      effective_date |-> NONE, service_description |-> NONE, minimum_age |-> I(18),
      requires_account |-> B(FALSE), has_paid_services |-> B(FALSE),
      has_subscriptions |-> B(FALSE), has_free_trial |-> B(FALSE), offers_refunds |-> B(FALSE),
      refund_period |-> NONE, payment_processors |-> L(<<>>), allows_user_content |-> B(FALSE),
      user_content_types |-> L(<<>>), moderates_content |-> B(FALSE),
      has_third_party_links |-> B(FALSE), provides_api |-> B(FALSE), has_mobile_app |-> B(FALSE),
      jurisdiction |-> NONE, governing_state |-> NONE, has_arbitration |-> B(FALSE),
      dispute_resolution |-> NONE, liability_cap |-> NONE, disclaims_warranties |-> B(TRUE)
    ]

\* main.py:177-229  cookie_config at module load
Default_cookie_config ==
    [
      company_name |-> NONE, website_url |-> NONE, website_name |-> NONE,
      company_address |-> NONE, contact_email |-> NONE, privacy_email |-> NONE,
      uses_essential_cookies |-> B(TRUE), uses_functional_cookies |-> B(FALSE),
      uses_performance_cookies |-> B(FALSE), uses_analytics |-> B(FALSE),
      uses_advertising_cookies |-> B(FALSE), uses_social_cookies |-> B(FALSE),
      uses_google_analytics |-> B(FALSE), uses_hotjar |-> B(FALSE), uses_mixpanel |-> B(FALSE),
      analytics_provider |-> NONE, uses_facebook_pixel |-> B(FALSE), uses_google_ads |-> B(FALSE),
      uses_linkedin_insight |-> B(FALSE), uses_twitter_pixel |-> B(FALSE),
      uses_tiktok_pixel |-> B(FALSE), uses_facebook_cookies |-> B(FALSE),
      uses_twitter_cookies |-> B(FALSE), uses_linkedin_cookies |-> B(FALSE),
      uses_instagram_cookies |-> B(FALSE), uses_youtube_cookies |-> B(FALSE),
      uses_pinterest_cookies |-> B(FALSE), social_sharing_enabled |-> B(FALSE),
      uses_hubspot |-> B(FALSE), uses_intercom |-> B(FALSE), third_party_cookies |-> L(<<>>),
      cookie_details |-> L(<<>>), has_cookie_consent |-> B(TRUE), honors_dnt |-> B(FALSE),
      gdpr_compliant |-> B(FALSE), allows_children |-> B(FALSE)
    ]

\* main.py:232-270  eula_config at module load
Default_eula_config ==
    [
      company_name |-> NONE, website_url |-> NONE, website_name |-> NONE, app_name |-> NONE,
      company_address |-> NONE, contact_email |-> NONE, license_type |-> S("subscription"),
      is_transferable |-> B(FALSE), is_subscription |-> B(TRUE), billing_cycle |-> S("monthly"),
      auto_renewal |-> B(TRUE), has_free_trial |-> B(FALSE), trial_period |-> S("14 days"),
      no_reverse_engineering |-> B(TRUE), no_modification |-> B(TRUE),
      no_redistribution |-> B(TRUE), no_commercial_use |-> B(FALSE), requires_account |-> B(TRUE),
      collects_data |-> B(TRUE), uses_third_party |-> B(TRUE),
      has_export_restrictions |-> B(TRUE), has_warranty |-> B(FALSE), warranty_period |-> NONE,
      liability_cap |-> S("amount paid for the Software in the 12 months preceding the claim"),
      jurisdiction |-> S("the State of Delaware"), dispute_resolution |-> S("binding arbitration")
    ]

\* main.py:273-305  refund_config at module load
Default_refund_config ==
    [
      company_name |-> NONE, website_url |-> NONE, website_name |-> NONE,
      company_address |-> NONE, contact_email |-> NONE, business_type |-> S("services"),
      has_satisfaction_guarantee |-> B(FALSE), guarantee_period |-> S("30 days"),
      refund_period |-> S("14 days"), refund_processing_time |-> S("5-10 business days"),
      return_period |-> S("30 days"), requires_receipt |-> B(TRUE),
      requires_original_packaging |-> B(TRUE), offers_exchanges |-> B(TRUE),
      restocking_fee |-> NONE, return_shipping |-> S("customer"), has_subscriptions |-> B(FALSE),
      subscription_refund_policy |-> S("prorated"), offers_prorated_refunds |-> B(TRUE),
      sale_items_refundable |-> B(TRUE)
    ]

\* app.py:150-316  get_default_config()
get_default_config ==
    [
      platform_type |-> S("website"), website_url |-> S(""), website_name |-> S(""),
      app_name |-> S(""), business_type |-> S("business"), company_name |-> S(""),
      company_address |-> S(""), country |-> S(""), contact_email |-> S(""),
      contact_phone |-> S(""), collects_name |-> B(TRUE), collects_email |-> B(TRUE),
      collects_phone |-> B(FALSE), collects_address |-> B(FALSE),
      collects_billing_address |-> B(FALSE), collects_payment_info |-> B(FALSE),
      collects_age |-> B(FALSE), collects_username |-> B(TRUE), collects_password |-> B(TRUE),
      uses_cookies |-> B(TRUE), uses_web_beacons |-> B(FALSE), uses_local_storage |-> B(FALSE),
      uses_sessions |-> B(TRUE), uses_google_maps |-> B(FALSE),
      social_login_facebook |-> B(FALSE), social_login_google |-> B(FALSE),
      social_login_twitter |-> B(FALSE), social_login_github |-> B(FALSE),
      social_login_linkedin |-> B(FALSE), has_email_newsletter |-> B(FALSE),
      uses_analytics |-> B(FALSE), analytics_provider |-> S(""), displays_ads |-> B(FALSE),
      uses_facebook_pixel |-> B(FALSE), uses_retargeting |-> B(FALSE),
      requests_geolocation |-> B(FALSE), requests_contacts |-> B(FALSE),
      requests_camera |-> B(FALSE), requests_photo_gallery |-> B(FALSE),
      requests_microphone |-> B(FALSE), requests_push_notifications |-> B(FALSE),
      accepts_payments |-> B(FALSE), payment_type |-> S("one_time"),
      payment_processors |-> L(<<>>), gdpr_compliant |-> B(FALSE), ccpa_compliant |-> B(FALSE),
      caloppa_compliant |-> B(FALSE), coppa_compliant |-> B(FALSE),
      allows_children_under_13 |-> B(FALSE), shares_with_third_parties |-> B(FALSE),
      third_party_categories |-> L(<<>>), sells_data |-> B(FALSE), allows_data_access |-> B(TRUE),
      allows_data_deletion |-> B(TRUE), allows_data_portability |-> B(FALSE),
      allows_opt_out |-> B(TRUE), uses_encryption |-> B(TRUE), uses_ssl |-> B(TRUE),
      has_security_measures |-> B(TRUE), data_retention_period |-> S(""),
      service_description |-> S(""), minimum_age |-> I(18), requires_account |-> B(TRUE),
      has_paid_services |-> B(FALSE), has_subscriptions |-> B(FALSE), has_free_trial |-> B(FALSE),
      offers_refunds |-> B(FALSE), refund_period |-> S(""), allows_user_content |-> B(FALSE),
      user_content_types |-> L(<<>>), moderates_content |-> B(FALSE),
      has_third_party_links |-> B(FALSE), provides_api |-> B(FALSE), has_mobile_app |-> B(FALSE),
      jurisdiction |-> S(""), governing_state |-> S(""), has_arbitration |-> B(FALSE),
      dispute_resolution |-> S(""), liability_cap |-> S(""), disclaims_warranties |-> B(TRUE),
      uses_essential_cookies |-> B(TRUE), uses_functional_cookies |-> B(FALSE),
      uses_performance_cookies |-> B(FALSE), uses_advertising_cookies |-> B(FALSE),
      uses_social_cookies |-> B(FALSE), uses_google_analytics |-> B(FALSE),
      uses_hotjar |-> B(FALSE), uses_mixpanel |-> B(FALSE), uses_google_ads |-> B(FALSE),
      uses_linkedin_insight |-> B(FALSE), uses_twitter_pixel |-> B(FALSE),
      uses_tiktok_pixel |-> B(FALSE), uses_facebook_cookies |-> B(FALSE),
      uses_twitter_cookies |-> B(FALSE), uses_linkedin_cookies |-> B(FALSE),
      uses_instagram_cookies |-> B(FALSE), uses_youtube_cookies |-> B(FALSE),
      uses_pinterest_cookies |-> B(FALSE), social_sharing_enabled |-> B(FALSE),
      uses_hubspot |-> B(FALSE), uses_intercom |-> B(FALSE), third_party_cookies |-> L(<<>>),
      has_cookie_consent |-> B(TRUE), honors_dnt |-> B(FALSE), license_type |-> S("subscription"),
      is_transferable |-> B(FALSE), is_subscription |-> B(TRUE), billing_cycle |-> S("monthly"),
      auto_renewal |-> B(TRUE), trial_period |-> S("14 days"), no_reverse_engineering |-> B(TRUE),
      no_modification |-> B(TRUE), no_redistribution |-> B(TRUE), no_commercial_use |-> B(FALSE),
      collects_data |-> B(TRUE), uses_third_party |-> B(TRUE),
      has_export_restrictions |-> B(FALSE), has_warranty |-> B(FALSE), warranty_period |-> S(""),
      eula_liability_cap |-> S(""), refund_business_type |-> S("services"),
      has_satisfaction_guarantee |-> B(FALSE), guarantee_period |-> S("30 days"),
      refund_period_days |-> S("14 days"), refund_processing_time |-> S("5-10 business days"),
      return_period |-> S("30 days"), requires_receipt |-> B(TRUE),
      requires_original_packaging |-> B(TRUE), offers_exchanges |-> B(TRUE),
      restocking_fee |-> S(""), return_shipping |-> S("customer"),
      subscription_refund_policy |-> S("prorated"), offers_prorated_refunds |-> B(TRUE),
      sale_items_refundable |-> B(TRUE)
    ]

----------------------------------------------------------------------------
(* Texts *)

T(s) == [b |-> FALSE, s |-> s]      \* a plain span
Bd(s) == [b |-> TRUE, s |-> s]      \* a **bold** span
Ln(k, spans) == [k |-> k, t |-> spans]

H1(s) == Ln("h1", <<T(s)>>)         \* "# s"
H2(s) == Ln("h2", <<T(s)>>)         \* "## s"
H3(s) == Ln("h3", <<T(s)>>)         \* "### s"
P(spans) == Ln("p", spans)          \* a line that starts with no markdown prefix
Pt(s) == Ln("p", <<T(s)>>)
Li(spans) == Ln("li", spans)        \* "- ..."
Lit(s) == Ln("li", <<T(s)>>)
Blank == Ln("blank", <<>>)          \* the empty line

\* a line produced by an expression that may be the empty string
PtOrBlank(s) == IF s = "" THEN Blank ELSE Pt(s)

RECURSIVE JoinLines(_, _)
\* sep.join(sections), sep being "\n" (sepLines = <<>>) or "\n\n" (sepLines = <<Blank>>)
JoinLines(sections, sepLines) ==
    IF sections = <<>> THEN <<>>
    ELSE IF Len(sections) = 1 THEN sections[1]
    ELSE sections[1] \o sepLines \o JoinLines(Tail(sections), sepLines)

\* [f(x) for x in l]
MapSeq(l, F(_)) == [i \in 1..Len(l) |-> F(l[i])]

\* the entries of a list of (condition, item) pairs whose condition holds, in order
RECURSIVE Included(_)
Included(pairs) ==
    IF pairs = <<>> THEN <<>>
    ELSE IF pairs[1][1] THEN <<pairs[1][2]>> \o Included(Tail(pairs))
    ELSE Included(Tail(pairs))

\* any([...]) over config.get(key) for the keys given
AnyKey(config, keys) == \E i \in 1..Len(keys) : Truthy(Get(config, keys[i]))

TicksPerDay == 2

\* datetime.now().strftime("%B %d, %Y")
DateFmt(now) == "Day " \o ToString(now \div TicksPerDay)

\* datetime.now().strftime("%Y%m%d_%H%M%S")
TimestampFmt(now) == "t" \o ToString(now)

----------------------------------------------------------------------------
(* privacy_generator.py *)

privacy_get_service_type(config) ==
    LET platform == Get(config, "platform_type")
    IN  IF platform = S("both") THEN "website and application"
        ELSE IF platform = S("app") THEN "application"
        ELSE "website"

privacy_get_platform_text(config) ==
    LET platform == Get(config, "platform_type")
        website == Or(Get(config, "website_url"), Get(config, "website_name"))
        app == Get(config, "app_name")
        parts == Included(<< <<Truthy(website), "the website " \o Str(website)>>,
                             <<Truthy(app), "the " \o Str(app) \o " mobile application">> >>)
    IN  IF platform = S("both")
        THEN IF parts # <<>> THEN JoinStr(parts, " and ")
             ELSE "our website and mobile application"
        ELSE IF platform = S("app")
        THEN IF Truthy(app) THEN "the " \o Str(app) \o " mobile application"
             ELSE "our mobile application"
        ELSE IF Truthy(website) THEN "the website " \o Str(website) ELSE "our website"

\* the company of the header when app_name is not consulted
privacy_header_company_without_app(config) ==
    Or(Or(Get(config, "company_name"), Get(config, "website_name")), S("Our Company"))

\* company, in _generate_header
privacy_header_company(config) ==
    Or(Or(Or(Get(config, "company_name"), Get(config, "website_name")),
          Get(config, "app_name")), S("Our Company"))

privacy_generate_header(config, now) ==
    LET company == privacy_header_company(config)
        date == Or(Get(config, "effective_date"), S(DateFmt(now)))
    IN  << H1("Privacy Policy"), Blank,
           P(<<Bd(Str(company))>>), Blank,
           P(<<Bd("Effective Date:"), T(" " \o Str(date))>>), Blank,
           P(<<Bd("Last Updated:"), T(" " \o DateFmt(now))>>) >>

privacy_generate_introduction(config) ==
    LET company == Or(Get(config, "company_name"), S("We"))
        platform == privacy_get_platform_text(config)
        service == privacy_get_service_type(config)
    IN  << H2("Introduction"), Blank,
           Pt(Str(company) \o " operates " \o platform
              \o ". This Privacy Policy explains how we safeguard your information when you visit our "
              \o service \o "."), Blank,
           Pt("If you do not agree with the terms of this Privacy Policy, please do not access the "
              \o service \o "."), Blank,
           Pt("We reserve the right to make changes to this Privacy Policy at any time.") >>

privacy_generate_information_collection(config) ==
    LET service == privacy_get_service_type(config)
        personal_data == Included(<<
            <<Truthy(Get(config, "collects_name")), "Name and username">>,
            <<Truthy(Get(config, "collects_email")), "Email address">>,
            <<Truthy(Get(config, "collects_phone")), "Phone number">>,
            <<Truthy(Get(config, "collects_address")), "Mailing address">>,
            <<Truthy(Get(config, "collects_billing_address")), "Billing address">>,
            <<Truthy(Get(config, "collects_job_title")), "Job title and employer information">>,
            <<Truthy(Get(config, "collects_payment_info")), "Payment information">>,
            <<Truthy(Get(config, "collects_age")), "Age and date of birth">>,
            <<Truthy(Get(config, "collects_password")), "Account credentials">>,
            <<Truthy(Get(config, "collects_username")), "Username">> >>)
        personal_list == IF personal_data # <<>> THEN MapSeq(personal_data, Lit)
                         ELSE <<Lit("Basic contact information as needed")>>
    IN  << H2("Information We Collect"), Blank, H3("Personal Data"), Blank,
           Pt("We may collect personally identifiable information when you:"),
           Lit("Register on our " \o service),
           Lit("Participate in activities on our " \o service),
           Lit("Contact us"), Blank,
           Pt("The personal information we collect may include:"), Blank >>
        \o personal_list \o
        << Blank, H3("Automatically Collected Information"), Blank,
           Pt("When you access our " \o service \o ", we may automatically collect:"),
           Lit("Your IP address"),
           Lit("The page you visited before navigating to our " \o service) >>

privacy_uses_tracking(config) ==
    AnyKey(config, <<"uses_cookies", "uses_web_beacons", "uses_local_storage",
                     "uses_sessions", "uses_google_maps">>)

privacy_generate_tracking_section(config) ==
    LET service == privacy_get_service_type(config)
        technologies == Included(<<
            <<Truthy(Get(config, "uses_cookies")),
              <<H3("Cookies"), Blank,
                Pt("We use cookies to track activity on our " \o service \o "."), Blank,
                Pt("If you do not accept cookies, you may not be able to use some portions of our "
                   \o service \o ".")>> >>,
            <<Truthy(Get(config, "uses_web_beacons")),
              <<H3("Web Beacons"), Blank,
                Pt("We may use web beacons to understand how you interact with our "
                   \o service \o ".")>> >>,
            <<Truthy(Get(config, "uses_local_storage")),
              <<H3("Local Storage"), Blank,
                Pt("We use local storage technologies to store content information.")>> >>,
            <<Truthy(Get(config, "uses_sessions")),
              <<H3("Session Data"), Blank,
                Pt("We use session cookies to maintain your session while you use our "
                   \o service \o ".")>> >>,
            <<Truthy(Get(config, "uses_google_maps")),
              <<H3("Google Maps API"), Blank,
                Pt("We may use Google Maps API to provide location-based features.")>> >> >>)
    IN  <<H2("Tracking Technologies"), Blank>> \o JoinLines(technologies, <<Blank>>)

privacy_uses_social_login(config) ==
    AnyKey(config, <<"social_login_facebook", "social_login_google", "social_login_twitter",
                     "social_login_github", "social_login_linkedin">>)

privacy_generate_social_login_section(config) ==
    LET providers == Included(<<
            <<Truthy(Get(config, "social_login_facebook")), "Facebook">>,
            <<Truthy(Get(config, "social_login_google")), "Google">>,
            <<Truthy(Get(config, "social_login_twitter")), "Twitter/X">>,
            <<Truthy(Get(config, "social_login_github")), "GitHub">>,
            <<Truthy(Get(config, "social_login_linkedin")), "LinkedIn">> >>)
        provider_list == JoinStr(providers, ", ")
    IN  << H2("Social Media Login"), Blank,
           Pt("We offer you the ability to register and login using your social media account (like "
              \o provider_list \o ")."), Blank,
           Pt("The profile information we receive will often include:"),
           Lit("Your name"), Lit("Email address"), Blank,
           Pt("We will use the information we receive only for the purposes described.") >>

privacy_generate_use_of_information(config) ==
    LET service == privacy_get_service_type(config)
    IN  << H2("How We Use Your Information"), Blank,
           Pt("We may use the information we collect about you for various purposes, including to:"),
           Blank,
           Lit("Provide, operate, and maintain our " \o service),
           Lit("Improve, personalize, and expand our " \o service),
           Lit("Understand and analyze how you use our " \o service),
           Lit("Send you updates and other information relating to the " \o service),
           Lit("Comply with legal obligations") >>

\* a faulty predicate that always includes the marketing section
privacy_has_marketing_always(config) == TRUE

privacy_has_marketing(config) ==
    AnyKey(config, <<"has_email_newsletter", "uses_analytics", "displays_ads",
                     "uses_facebook_pixel", "uses_retargeting">>)

privacy_generate_marketing_section(config) ==
    LET service == privacy_get_service_type(config)
        provider == Or(Get(config, "analytics_provider"), S("analytics tools"))
        content == <<<<H2("Marketing and Advertising")>>>> \o Included(<<
            <<Truthy(Get(config, "has_email_newsletter")),
              <<H3("Email Marketing"), Blank,
                Pt("With your consent, we may send you emails about our products."),
                Lit("Clicking the unsubscribe link in any marketing email")>> >>,
            <<Truthy(Get(config, "uses_analytics")),
              <<H3("Analytics"), Blank,
                Pt("We use " \o Str(provider)
                   \o " to help us understand how our users engage with our " \o service \o "."),
                Lit("Pages visited and time spent on each page")>> >>,
            <<Truthy(Get(config, "displays_ads")),
              <<H3("Advertising"), Blank,
                Pt("We may display advertisements on our " \o service \o ".")>> >>,
            <<Truthy(Get(config, "uses_facebook_pixel")),
              <<H3("Facebook Pixel"), Blank,
                Pt("We use Facebook Pixel to measure the effectiveness of our advertising.")>> >>,
            <<Truthy(Get(config, "uses_retargeting")),
              <<H3("Retargeting"), Blank,
                Pt("We may use retargeting technologies after you have visited our "
                   \o service \o ".")>> >> >>)
    IN  JoinLines(content, <<Blank>>)

privacy_has_app_permissions(config) ==
    AnyKey(config, <<"requests_geolocation", "requests_contacts", "requests_camera",
                     "requests_photo_gallery", "requests_microphone",
                     "requests_push_notifications">>)

privacy_generate_app_permissions_section(config) ==
    LET permissions == Included(<<
            <<Truthy(Get(config, "requests_geolocation")),
              <<P(<<Bd("Location Data:"), T(" We may request access to your device's location.")>>)>> >>,
            <<Truthy(Get(config, "requests_contacts")),
              <<P(<<Bd("Contacts:"), T(" We may request access to your contacts.")>>)>> >>,
            <<Truthy(Get(config, "requests_camera")),
              <<P(<<Bd("Camera:"), T(" We may request access to your camera.")>>)>> >>,
            <<Truthy(Get(config, "requests_photo_gallery")),
              <<P(<<Bd("Photo Gallery:"), T(" We may request access to your photo gallery.")>>)>> >>,
            <<Truthy(Get(config, "requests_microphone")),
              <<P(<<Bd("Microphone:"), T(" We may request access to your microphone.")>>)>> >>,
            <<Truthy(Get(config, "requests_push_notifications")),
              <<P(<<Bd("Push Notifications:"), T(" We may request permission to send you push notifications.")>>)>> >> >>)
    IN  << H2("Mobile Application Permissions"), Blank,
           Pt("When using our mobile application, we may request certain permissions:"), Blank >>
        \o JoinLines(permissions, <<Blank>>) \o
        << Blank, Pt("You can revoke these permissions at any time through your device settings.") >>

privacy_generate_payment_section(config) ==
    LET payment_type == Or(Get(config, "payment_type"), S("one-time and recurring"))
        processors == Or(Get(config, "payment_processors"),
                         L(<<"third-party payment processors">>))
        processor_list == IF IsList(processors) THEN JoinStr(processors.v, ", ")
                          ELSE Str(processors)
    IN  << H2("Payment Processing"), Blank,
           Pt("We may accept " \o Str(payment_type) \o " payments for our products and services. We use "
              \o processor_list \o " to process payments."), Blank,
           H3("Payment Information"), Blank,
           Pt("When you make a purchase, you may be required to provide:"),
           Lit("Credit or debit card information"), Blank,
           H3("Security of Payment Data"), Blank,
           Pt("We do not store your complete payment card information on our servers."),
           Lit("Last four digits of your card number"), Blank,
           H3("Recurring Payments"), Blank,
           Pt(IF payment_type = S("recurring") \/ payment_type = S("both")
              THEN "If you subscribe to a recurring service, your payment information will be stored by our payment processor."
              ELSE "We process one-time payments only and do not store your payment information for future transactions.") >>

privacy_generate_data_sharing_section(config) ==
    LET categories == Or(Get(config, "third_party_categories"), L(<<"business partners">>))
        category_list == IF IsList(categories) THEN JoinStr(categories.v, ", ")
                         ELSE Str(categories)
        sharing_scenarios ==
            << Li(<<Bd("Service Providers:"), T(" We may share your information with third-party vendors.")>>),
               Li(<<Bd("Business Transfers:"), T(" We may share or transfer your information in connection with any merger.")>>),
               Li(<<Bd("Legal Requirements:"), T(" We may disclose your information where required to do so by law.")>>),
               Li(<<Bd("Protection of Rights:"), T(" We may disclose your information to protect the rights of our company.")>>) >>
            \o (IF Truthy(Get(config, "shares_with_third_parties"))
                THEN <<Li(<<Bd("Third-Party Partners:"),
                           T(" We may share your information with " \o category_list
                             \o " for purposes described in this policy.")>>)>>
                ELSE <<>>)
            \o (IF Truthy(Get(config, "sells_data")) THEN <<>>
                ELSE <<Li(<<Bd("No Sale of Data:"),
                           T(" We do not sell your personal information to third parties.")>>)>>)
        content == << <<H2("Sharing Your Information"), Blank,
                        Pt("We may share your information in the following situations:")>>,
                      sharing_scenarios >>
                   \o (IF Truthy(Get(config, "sells_data"))
                       THEN << <<H3("Sale of Personal Information"), Blank,
                                 Pt("We may sell certain categories of personal information to third parties.")>> >>
                       ELSE <<>>)
    IN  JoinLines(content, <<Blank>>)

privacy_generate_data_retention_section(config) ==
    LET retention == Or(Get(config, "data_retention_period"),
                        S("as long as necessary to fulfill the purposes outlined in this Privacy Policy"))
    IN  << H2("Data Retention"), Blank,
           Pt("We will retain and use your information to the extent necessary to:"), Blank,
           Lit("Comply with our legal obligations"),
           Lit("Resolve disputes"), Blank,
           P(<<Bd("Retention Period:"),
               T(" We retain your personal data for " \o Str(retention)
                 \o ", unless a longer retention period is required or permitted by law.")>>), Blank,
           Pt("When your personal data is no longer needed, we will securely delete or anonymize it.") >>

privacy_generate_security_section(config) ==
    LET service == privacy_get_service_type(config)
        measures == <<"We use administrative, technical, and physical security measures to protect your personal information.">>
            \o Included(<<
                <<Truthy(Get(config, "uses_encryption")),
                  "We use encryption to protect data transmitted to and from our " \o service \o ".">>,
                <<Truthy(Get(config, "uses_ssl")),
                  "Our " \o service \o " uses SSL/TLS encryption to secure data transmission.">>,
                <<Truthy(Get(config, "has_security_measures")),
                  "We implement industry-standard security measures including firewalls.">> >>)
        security_content == JoinStr(measures, " ")
    IN  << H2("Data Security"), Blank,
           Pt(security_content), Blank,
           Pt("No method of transmission over the Internet or electronic storage is 100% secure."),
           Blank,
           Pt("If you have reason to believe that your interaction with us is no longer secure, please contact us immediately.") >>

privacy_generate_user_rights_section(config) ==
    LET rights == Included(<<
            <<Truthy(Get(config, "allows_data_access")),
              Li(<<Bd("Right to Access:"), T(" You have the right to request copies of your personal data.")>>)>>,
            <<Truthy(Get(config, "allows_data_deletion")),
              Li(<<Bd("Right to Deletion:"), T(" You have the right to request that we delete your personal data.")>>)>>,
            <<Truthy(Get(config, "allows_data_portability")),
              Li(<<Bd("Right to Data Portability:"), T(" You have the right to request that we transfer the data.")>>)>>,
            <<Truthy(Get(config, "allows_opt_out")),
              Li(<<Bd("Right to Opt Out:"), T(" You have the right to opt out of certain data processing activities.")>>)>>,
            <<TRUE, Li(<<Bd("Right to Rectification:"), T(" You have the right to request that we correct any information.")>>)>>,
            <<TRUE, Li(<<Bd("Right to Restrict Processing:"), T(" You have the right to request that we restrict the processing.")>>)>> >>)
    IN  << H2("Your Privacy Rights"), Blank,
           Pt("Depending on your location, you may have certain rights regarding your personal information:"),
           Blank >>
        \o rights \o
        << Blank, H3("Exercising Your Rights"), Blank,
           Pt("To exercise any of these rights, please contact us using the contact information provided below."),
           Blank,
           Pt("We may need to verify your identity before processing your request.") >>

privacy_generate_children_privacy_section(config) ==
    LET service == privacy_get_service_type(config)
    IN  IF Truthy(Get(config, "allows_children_under_13")) \/ Truthy(Get(config, "coppa_compliant"))
        THEN << H2("Children's Privacy"), Blank,
                Pt("We are committed to protecting the privacy of children. Our " \o service
                   \o " may be used by children under the age of 13 with parental consent."), Blank,
                H3("Parental Consent"), Blank,
                Pt("If your child is under 13, we require verifiable parental consent. Parents or guardians can:"),
                Lit("Review their child's personal information"), Blank,
                H3("Contact for Parents"), Blank,
                Pt("If you are a parent or guardian, please contact us immediately."), Blank,
                Pt("We comply with the Children's Online Privacy Protection Act (COPPA).") >>
        ELSE << H2("Children's Privacy"), Blank,
                Pt("Our " \o service \o " is not intended for children under the age of 13."), Blank,
                Pt("If we become aware that we have collected personal information from a child under 13, we will remove that information.") >>

privacy_generate_gdpr_section(config) ==
    << H2("GDPR Privacy Rights (European Economic Area)"), Blank,
       Pt("If you are a resident of the European Economic Area (EEA), you have certain data protection rights:"),
       Blank,
       H3("Legal Basis for Processing"), Blank,
       Pt("We process your personal data based on one or more of the following legal grounds:"),
       Li(<<Bd("Consent:"), T(" You have given clear consent for us to process your personal data.")>>),
       Blank,
       H3("Your GDPR Rights"), Blank,
       Pt("In addition to the rights listed above, under GDPR you also have:"),
       Lit("The right to lodge a complaint with a supervisory authority"), Blank,
       H3("Data Transfers"), Blank,
       Pt("If we transfer your data outside the EEA, we ensure appropriate safeguards are in place."),
       Blank,
       H3("Data Protection Officer"), Blank,
       Pt("For any questions about our data practices, you may contact us using the information provided below.") >>

\* the template is not an f-string and is not formatted: its last paragraph is
\* the literal text between braces, whatever sells_data holds
privacy_generate_ccpa_section(config) ==
    << H2("CCPA Privacy Rights (California Residents)"), Blank,
       Pt("If you are a California resident, you have specific rights under the CCPA:"), Blank,
       H3("Your CCPA Rights"), Blank,
       Li(<<Bd("Right to Know:"), T(" You can request information about the personal information we collect.")>>),
       Blank,
       H3("Categories of Information Collected"), Blank,
       Pt("We may collect the following categories of personal information:"),
       Lit("Identifiers (name, email, IP address)"), Blank,
       H3("How to Exercise Your Rights"), Blank,
       Pt("To exercise your CCPA rights, you can:"),
       Lit("Submit a request through our contact form"), Blank,
       Pt("We will verify your identity before processing your request."), Blank,
       H3("Do Not Sell My Personal Information"), Blank,
       Pt("{\"We may sell certain categories of personal information.\" if config.get(\"sells_data\") else \"We do not sell your personal information.\"}") >>

privacy_generate_caloppa_section(config) ==
    LET service == privacy_get_service_type(config)
    IN  << H2("CalOPPA Compliance (California Online Privacy Protection Act)"), Blank,
           Pt("In accordance with CalOPPA, we agree to the following:"), Blank,
           Lit("Users can visit our " \o service \o " anonymously"),
           Lit("This Privacy Policy link is clearly accessible on our home page"), Blank,
           H3("Do Not Track Signals"), Blank,
           Pt("We honor Do Not Track signals.") >>

privacy_generate_updates_section(config) ==
    LET service == privacy_get_service_type(config)
    IN  << H2("Changes to This Privacy Policy"), Blank,
           Pt("We may update our Privacy Policy from time to time. We will notify you of any changes by:"),
           Lit("Posting the new Privacy Policy on this page"), Blank,
           Pt("You are advised to review this Privacy Policy periodically for any changes."), Blank,
           Pt("Your continued use of our " \o service
              \o " after any modifications constitutes your acceptance of those changes.") >>

privacy_generate_contact_section(config) ==
    LET company == Or(Or(Or(Get(config, "company_name"), Get(config, "website_name")),
                         Get(config, "app_name")), S("Us"))
        contact_info == Included(<<
            <<Truthy(Get(config, "contact_email")),
              P(<<Bd("Email:"), T(" " \o Str(Get(config, "contact_email")))>>)>>,
            <<Truthy(Get(config, "contact_phone")),
              P(<<Bd("Phone:"), T(" " \o Str(Get(config, "contact_phone")))>>)>>,
            <<Truthy(Get(config, "company_address")),
              P(<<Bd("Address:"), T(" " \o Str(Get(config, "company_address")))>>)>>,
            <<Truthy(Get(config, "website_url")),
              P(<<Bd("Website:"), T(" " \o Str(Get(config, "website_url")))>>)>> >>)
        contact_list == IF contact_info # <<>> THEN contact_info
                        ELSE <<Pt("Please visit our website for contact information.")>>
    IN  << H2("Contact Us"), Blank,
           Pt("If you have any questions about this Privacy Policy or our data practices, please contact us:"),
           Blank,
           P(<<Bd(Str(company))>>), Blank >>
        \o contact_list \o
        << Blank, Pt("We will respond to your inquiry as soon as possible, typically within 30 days.") >>

----------------------------------------------------------------------------
(* Markdown to HTML: _convert_to_html of the privacy, terms and cookie     *)
(* generators.  The regular expressions work line by line on the prefixes  *)
(* the templates emit; an HTML line is kept as Raw(string).                *)

Raw(s) == Ln("raw", <<T(s)>>)

\* an HTML line as the sequence of its tags and the text between them
RawLine(tokens) == Ln("raw", [i \in 1..Len(tokens) |-> T(tokens[i])])

RECURSIVE SpansHtml(_)
\* re.sub(r'\*\*(.+?)\*\*', r'<strong>\1</strong>', ...) on the spans of one line
SpansHtml(spans) ==
    IF spans = <<>> THEN <<>>
    ELSE (IF spans[1].b THEN <<"<strong>", spans[1].s, "</strong>">> ELSE <<spans[1].s>>)
         \o SpansHtml(Tail(spans))

\* headings, bold, "- " items, then the <p> wrapping of a line that does not start with "<"
HtmlLine(l) ==
    CASE l.k = "h1" -> <<"<h1>">> \o SpansHtml(l.t) \o <<"</h1>">>
      [] l.k = "h2" -> <<"<h2>">> \o SpansHtml(l.t) \o <<"</h2>">>
      [] l.k = "h3" -> <<"<h3>">> \o SpansHtml(l.t) \o <<"</h3>">>
      [] l.k = "li" -> <<"<li>">> \o SpansHtml(l.t) \o <<"</li>">>
      [] l.k = "blank" -> <<>>
      [] l.k = "tr" -> <<"<tr><td>">> \o SpansHtml(l.t) \o <<"</td></tr>">>
      [] l.k = "ol" -> <<"<p>", ToString(l.n) \o ". ">> \o SpansHtml(l.t) \o <<"</p>">>
      [] OTHER -> IF l.t # <<>> /\ l.t[1].b THEN SpansHtml(l.t)
                  ELSE <<"<p>">> \o SpansHtml(l.t) \o <<"</p>">>

\* re.sub(r'(<li>.+?</li>\n)+', ...): a run of item lines, each followed by a newline,
\* is put between <ul> and </ul>
WrapListItems(lines) ==
    LET item(i) == i >= 1 /\ i < Len(lines) /\ lines[i].k = "li"
    IN  [i \in 1..Len(lines) |->
            RawLine((IF item(i) /\ ~item(i - 1) THEN <<"<ul>">> ELSE <<>>)
                    \o HtmlLine(lines[i])
                    \o (IF item(i) /\ ~item(i + 1) THEN <<"</ul>">> ELSE <<>>))]

HtmlDocument(title, html_content) ==
    << Raw("<!DOCTYPE html>"), Raw("<html lang=\"en\">"), Raw("<head>"),
       Raw("<title>" \o title \o "</title>"), Raw("</head>"), Raw("<body>") >>
    \o html_content \o << Raw("</body>"), Raw("</html>") >>

privacy_convert_to_html(markdown_text, config) ==
    LET company == Or(Or(Or(Get(config, "company_name"), Get(config, "website_name")),
                         Get(config, "app_name")), S("Privacy Policy"))
    IN  HtmlDocument("Privacy Policy - " \o Str(company), WrapListItems(markdown_text))

\* the list `sections` of generate_policy when it is joined
privacy_sections(config, now) ==
    Included(<<
            <<TRUE, privacy_generate_header(config, now)>>,
            <<TRUE, privacy_generate_introduction(config)>>,
            <<TRUE, privacy_generate_information_collection(config)>>,
            <<privacy_uses_tracking(config), privacy_generate_tracking_section(config)>>,
            <<privacy_uses_social_login(config), privacy_generate_social_login_section(config)>>,
            <<TRUE, privacy_generate_use_of_information(config)>>,
            <<privacy_has_marketing(config), privacy_generate_marketing_section(config)>>,
            <<Get(config, "platform_type") \in {S("app"), S("both")}
                /\ privacy_has_app_permissions(config),
              privacy_generate_app_permissions_section(config)>>,
            <<Truthy(Get(config, "accepts_payments")), privacy_generate_payment_section(config)>>,
            <<TRUE, privacy_generate_data_sharing_section(config)>>,
            <<TRUE, privacy_generate_data_retention_section(config)>>,
            <<TRUE, privacy_generate_security_section(config)>>,
            <<TRUE, privacy_generate_user_rights_section(config)>>,
            <<TRUE, privacy_generate_children_privacy_section(config)>>,
            <<Truthy(Get(config, "gdpr_compliant")), privacy_generate_gdpr_section(config)>>,
            <<Truthy(Get(config, "ccpa_compliant")), privacy_generate_ccpa_section(config)>>,
            <<Truthy(Get(config, "caloppa_compliant")), privacy_generate_caloppa_section(config)>>,
            <<TRUE, privacy_generate_updates_section(config)>>,
            <<TRUE, privacy_generate_contact_section(config)>> >>)

\* generate_policy(config, output_format), with the value datetime.now() returns
generate_policy(config, output_format, now) ==
    LET sections == privacy_sections(config, now)
        policy_text == JoinLines(sections, <<Blank>>)
    IN  IF output_format = "html" THEN privacy_convert_to_html(policy_text, config)
        ELSE policy_text

----------------------------------------------------------------------------
(* Conversions of the strings the model uses (str.upper, str.lower, replace) *)

\* s.upper()
Upper(s) ==
    CASE s = "Acme Inc" -> "ACME INC"
      [] s = "Beta LLC" -> "BETA LLC"
      [] s = "Company" -> "COMPANY"
      [] s = "THE COMPANY" -> "THE COMPANY"
      [] s = "amount paid for the Software in the 12 months preceding the claim"
           -> "AMOUNT PAID FOR THE SOFTWARE IN THE 12 MONTHS PRECEDING THE CLAIM"
      [] s = "fees paid" -> "FEES PAID"
      [] s = "" -> ""
      [] OTHER -> "UPPER(" \o s \o ")"

----------------------------------------------------------------------------
(* tos_generator.py *)

tos_get_service_type(config) ==
    LET platform == Get(config, "platform_type")
    IN  IF platform = S("both") THEN "website and mobile application"
        ELSE IF platform = S("app") THEN "mobile application"
        ELSE "website"

tos_generate_header(config, now) ==
    LET company == Or(Or(Or(Get(config, "company_name"), Get(config, "website_name")),
                         Get(config, "app_name")), S("Our Company"))
        date == Or(Get(config, "effective_date"), S(DateFmt(now)))
    IN  << H1("Terms of Service"), Blank,
           P(<<Bd(Str(company))>>), Blank,
           P(<<Bd("Effective Date:"), T(" " \o Str(date))>>), Blank,
           P(<<Bd("Last Updated:"), T(" " \o DateFmt(now))>>) >>

tos_generate_agreement_section(config) ==
    LET company == Or(Get(config, "company_name"), S("We"))
        service == tos_get_service_type(config)
    IN  << H2("Agreement to Terms"), Blank,
           Pt("Welcome to " \o Str(company) \o ". These Terms of Service govern your use of our "
              \o service \o " and any related services provided by " \o Str(company) \o "."), Blank,
           Pt("By accessing or using our Service, you agree to be bound by these Terms."), Blank,
           Pt(IF Truthy(Get(config, "minimum_age"))
              THEN "You must be at least " \o Str(GetD(config, "minimum_age", I(18)))
                   \o " years old to use this Service."
              ELSE "You must be at least 18 years old to use this Service."), Blank,
           Pt("By using this Service, you represent and warrant that you meet all of the eligibility requirements.") >>

tos_generate_definitions(config) ==
    LET company == Or(Get(config, "company_name"), S("Company"))
        service == tos_get_service_type(config)
    IN  << H2("Definitions"), Blank,
           Pt("For the purposes of these Terms of Service:"), Blank,
           Li(<<Bd("\"Company\""), T(" refers to " \o Str(company)
                \o (IF Truthy(Get(config, "company_address"))
                    THEN ", located at " \o Str(Get(config, "company_address")) ELSE "")
                \o ".")>>), Blank,
           Li(<<Bd("\"Service\""), T(" refers to the " \o service \o ".")>>), Blank,
           Li(<<Bd("\"Terms\""), T(" means these Terms of Service.")>>), Blank,
           Li(<<Bd("\"User Content\""), T(" means any Content that You or other users submit.")>>) >>

tos_generate_account_terms(config) ==
    << H2("Account Registration and Security"), Blank,
       H3("Creating an Account"), Blank,
       Pt("To access certain features of our Service, you may be required to register for an account. When you register, you agree to:"),
       Blank,
       Lit("Provide accurate, current, and complete information during the registration process"),
       Lit("Notify us immediately of any unauthorized use of your account or any other breach of security"),
       Blank,
       H3("Account Responsibilities"), Blank,
       Pt("You are responsible for:"), Blank,
       Lit("All activities that occur under your account"), Blank,
       H3("Account Termination"), Blank,
       Pt("We reserve the right to:"), Blank,
       Lit("Refuse service to anyone for any reason at any time"),
       Lit("Remove or refuse to post any User Content for any or no reason") >>

tos_generate_payment_terms(config) ==
    LET processors == Or(Get(config, "payment_processors"), L(<<"major credit cards">>))
        refund_period == Or(Get(config, "refund_period"), S("30 days"))
        sections == << <<H2("Payments and Subscriptions")>>,
                       <<H3("Fees and Payment"), Blank,
                         Pt("Certain features of the Service may be offered for a fee."), Blank,
                         H3("Payment Methods"), Blank,
                         Pt("We accept the following payment methods:")>> >>
            \o (IF IsList(processors) THEN [i \in 1..Len(processors.v) |-> <<Lit(processors.v[i])>>]
                ELSE << <<Lit(Str(processors))>> >>)
            \o Included(<<
                <<Truthy(Get(config, "has_subscriptions")),
                  <<Blank, H3("Subscription Terms"), Blank,
                    Pt("Some parts of the Service are billed on a subscription basis."), Blank,
                    P(<<Bd("Automatic Renewal:"), T(" Your subscription will automatically renew.")>>),
                    Blank,
                    P(<<Bd("Cancellation:"), T(" You may cancel your subscription at any time.")>>),
                    Blank,
                    P(<<Bd("Price Changes:"), T(" We reserve the right to modify subscription fees.")>>)>> >>,
                <<Truthy(Get(config, "has_free_trial")),
                  <<Blank, H3("Free Trial"), Blank,
                    Pt("We may offer a free trial period for certain subscription plans.")>> >>,
                <<Truthy(Get(config, "offers_refunds")),
                  <<Blank, H3("Refund Policy"), Blank,
                    Pt("If you are not satisfied with the Service, you may request a refund within "
                       \o Str(refund_period) \o " of your purchase.")>> >>,
                <<~Truthy(Get(config, "offers_refunds")),
                  <<Blank, H3("No Refunds"), Blank,
                    Pt("All fees are non-refundable.")>> >> >>)
    IN  JoinLines(sections, <<>>)

tos_generate_user_content_section(config) ==
    << H2("User Content"), Blank,
       H3("Your Content"), Blank,
       Pt("Our Service may allow you to post, link, store, share certain material."), Blank,
       H3("Rights You Grant Us"), Blank,
       Pt("By posting User Content on or through the Service, you grant us a worldwide license."), Blank,
       H3("Content Standards"), Blank,
       Pt("You agree that your User Content will not:"), Blank,
       Lit("Contain any material that is defamatory or otherwise objectionable"),
       Lit("Involve commercial activities or sales without our prior written consent"), Blank,
       H3("Content Moderation"), Blank,
       Pt("We reserve the right, but not the obligation, to:"), Blank,
       Lit("Monitor User Content"),
       Lit("Remove or refuse to post any User Content for any or no reason") >>

tos_generate_acceptable_use(config) ==
    << H2("Acceptable Use Policy"), Blank,
       Pt("You agree not to use the Service in any way that:"), Blank,
       H3("Prohibited Activities"), Blank,
       Lit("Violates any applicable federal, state, local, or international law or regulation"),
       Lit("Attempts to gain unauthorized access to, interfere with, damage, or disrupt any parts of the Service"),
       Blank,
       H3("Consequences of Violation"), Blank,
       Pt("Violation of this Acceptable Use Policy may result in:"), Blank,
       Lit("Termination or suspension of your access to the Service"),
       Lit("Legal action against you") >>

tos_generate_intellectual_property(config) ==
    LET company == Or(Get(config, "company_name"), S("the Company"))
    IN  << H2("Intellectual Property Rights"), Blank,
           H3("Our Intellectual Property"), Blank,
           Pt("The Service and its original content are and will remain the exclusive property of "
              \o Str(company) \o " and its licensors."), Blank,
           H3("Copyright and Trademarks"), Blank,
           Pt("All text, graphics, user interfaces, trademarks and logos are owned by "
              \o Str(company) \o "."), Blank,
           H3("Your License to Use the Service"), Blank,
           Pt("Subject to your compliance with these Terms, we grant you a limited license."), Blank,
           H3("Restrictions"), Blank,
           Pt("You may not:"), Blank,
           Lit("Copy, modify, or distribute the Service or any Content"),
           Lit("Transfer the Content to another person or \"mirror\" the Content on any other server") >>

tos_generate_third_party_section(config) ==
    << H2("Third-Party Links and Services"), Blank,
       H3("Third-Party Websites"), Blank,
       Pt("Our Service may contain links to third-party websites that are not owned or controlled by us."),
       Blank,
       Pt("You acknowledge and agree that we shall not be responsible or liable for any damage or loss."),
       Blank,
       H3("Third-Party Services"), Blank,
       Pt("We may use third-party services to help operate our Service.") >>

tos_generate_api_terms(config) ==
    << H2("API Terms"), Blank,
       H3("API Access"), Blank,
       Pt("We may provide access to our API for developers."), Blank,
       H3("API License"), Blank,
       Pt("We grant you a limited, revocable license to use our API."), Blank,
       H3("API Restrictions"), Blank,
       Pt("You agree not to:"), Blank,
       Lit("Use the API in any way that could harm the Service"), Blank,
       H3("API Changes and Discontinuation"), Blank,
       Pt("We reserve the right to modify, suspend, or discontinue the API at any time without notice.") >>

tos_generate_disclaimers(config) ==
    << H2("Disclaimers and Warranties"), Blank,
       H3("\"As Is\" and \"As Available\""), Blank,
       Pt("THE SERVICE IS PROVIDED ON AN \"AS IS\" AND \"AS AVAILABLE\" BASIS."), Blank,
       H3("No Warranty"), Blank,
       Pt("We do not warrant that:"), Blank,
       Lit("The Service will function uninterrupted, secure, or available at any particular time"),
       Blank,
       H3("Professional Advice Disclaimer"), Blank,
       Pt("The information provided through the Service is for general informational purposes only."),
       Blank,
       H3("Jurisdictional Limitations"), Blank,
       Pt("Some jurisdictions do not allow the exclusion of certain warranties.") >>

tos_generate_liability_limitation(config) ==
    LET company == Or(Get(config, "company_name"), S("THE COMPANY"))
    IN  << H2("Limitation of Liability"), Blank,
           H3("Exclusion of Damages"), Blank,
           Pt("TO THE MAXIMUM EXTENT PERMITTED BY APPLICABLE LAW, IN NO EVENT SHALL "
              \o Upper(Str(company)) \o " BE LIABLE FOR ANY INDIRECT DAMAGES RESULTING FROM:"),
           Blank,
           Lit("Your access to or use of or inability to access or use the Service"),
           Lit("Unauthorized access, use, or alteration of your transmissions or content"), Blank,
           H3("Liability Cap"), Blank,
           Pt("IN NO EVENT SHALL OUR TOTAL LIABILITY TO YOU EXCEED THE AMOUNT YOU HAVE PAID US IN THE LAST TWELVE (12) MONTHS, OR ONE HUNDRED DOLLARS ($100), WHICHEVER IS GREATER."),
           Blank,
           H3("Basis of the Bargain"), Blank,
           Pt("THE LIMITATIONS OF DAMAGES SET FORTH ABOVE ARE FUNDAMENTAL ELEMENTS OF THE BASIS OF THE BARGAIN BETWEEN US AND YOU.") >>

tos_generate_indemnification(config) ==
    LET company == Or(Get(config, "company_name"), S("the Company"))
    IN  << H2("Indemnification"), Blank,
           Pt("You agree to defend, indemnify, and hold harmless " \o Str(company)
              \o ", its affiliates, licensors, and service providers from any claims arising out of:"),
           Blank,
           Lit("Your violation of these Terms"),
           Lit("Any claim that your User Content caused damage to a third party"), Blank,
           Pt("This indemnification obligation will survive the termination of these Terms and your use of the Service.") >>

tos_generate_termination(config) ==
    << H2("Termination"), Blank,
       H3("Termination by You"), Blank,
       Pt("You may terminate your account at any time by contacting us."), Blank,
       H3("Termination by Us"), Blank,
       Pt("We may terminate or suspend your account and access to the Service immediately."), Blank,
       H3("Effect of Termination"), Blank,
       Pt("Upon termination:"), Blank,
       Lit("Your right to use the Service will immediately cease"),
       Lit("We may delete your account and all associated data"), Blank,
       H3("No Refunds on Termination"), Blank,
       Pt("If we terminate your account for breach of these Terms, you will not be entitled to any refund of fees paid.") >>

tos_generate_governing_law(config) ==
    LET jurisdiction == Or(Or(Get(config, "jurisdiction"), Get(config, "country")),
                           S("the United States"))
        state == Or(Get(config, "governing_state"), S("California"))
    IN  << H2("Governing Law"), Blank,
           Pt("These Terms shall be governed and construed in accordance with the laws of "
              \o Str(state) \o ", " \o Str(jurisdiction)
              \o ", without regard to its conflict of law provisions."), Blank,
           Pt("Our failure to enforce any right or provision of these Terms will not be considered a waiver of those rights."),
           Blank,
           Pt("These Terms constitute the entire agreement between us regarding our Service.") >>

tos_generate_dispute_resolution(config) ==
    LET sections == << <<H2("Dispute Resolution")>>,
            IF Truthy(Get(config, "has_arbitration"))
            THEN << H3("Binding Arbitration"), Blank,
                    Pt("Any dispute arising out of or relating to these Terms or the Service shall be resolved by binding arbitration."),
                    Blank,
                    H3("Class Action Waiver"), Blank,
                    Pt("YOU AND THE COMPANY AGREE THAT EACH MAY BRING CLAIMS AGAINST THE OTHER ONLY IN YOUR OR ITS INDIVIDUAL CAPACITY."),
                    Blank,
                    H3("Exceptions to Arbitration"), Blank,
                    Pt("Notwithstanding the above, either party may seek injunctive or other equitable relief in any court of competent jurisdiction.") >>
            ELSE << H3("Informal Resolution"), Blank,
                    Pt("Before filing a claim, you agree to try to resolve the dispute informally by contacting us."),
                    Blank,
                    H3("Judicial Forum"), Blank,
                    Pt("Any legal action or proceeding shall be instituted in the courts of the jurisdiction specified in the Governing Law section.") >> >>
    IN  JoinLines(sections, <<Blank>>)

tos_generate_changes_section(config) ==
    << H2("Changes to Terms"), Blank,
       Pt("We reserve the right, at our sole discretion, to modify or replace these Terms at any time."),
       Blank,
       Pt("By continuing to access or use our Service after those revisions become effective, you agree to be bound by the revised terms."),
       Blank,
       Pt("We encourage you to review these Terms periodically for any changes.") >>

tos_generate_severability(config) ==
    << H2("Severability and Waiver"), Blank,
       H3("Severability"), Blank,
       Pt("If any provision of these Terms is held to be unenforceable or invalid, such provision will be changed and interpreted."),
       Blank,
       H3("Waiver"), Blank,
       Pt("Our failure to exercise or enforce any right or provision of these Terms shall not operate as a waiver."),
       Blank,
       H3("Entire Agreement"), Blank,
       Pt("These Terms, together with the Privacy Policy, shall constitute the entire agreement.") >>

tos_generate_contact_section(config) ==
    LET company == Or(Or(Or(Get(config, "company_name"), Get(config, "website_name")),
                         Get(config, "app_name")), S("Us"))
        contact_info == Included(<<
            <<Truthy(Get(config, "contact_email")),
              P(<<Bd("Email:"), T(" " \o Str(Get(config, "contact_email")))>>)>>,
            <<Truthy(Get(config, "contact_phone")),
              P(<<Bd("Phone:"), T(" " \o Str(Get(config, "contact_phone")))>>)>>,
            <<Truthy(Get(config, "company_address")),
              P(<<Bd("Address:"), T(" " \o Str(Get(config, "company_address")))>>)>>,
            <<Truthy(Get(config, "website_url")),
              P(<<Bd("Website:"), T(" " \o Str(Get(config, "website_url")))>>)>> >>)
        contact_list == IF contact_info # <<>> THEN contact_info
                        ELSE <<Pt("Please visit our website for contact information.")>>
    IN  << H2("Contact Us"), Blank,
           Pt("If you have any questions about these Terms of Service, please contact us:"), Blank,
           P(<<Bd(Str(company))>>), Blank >>
        \o contact_list \o
        << Blank, Pt("We will respond to your inquiry as soon as possible.") >>

tos_convert_to_html(markdown_text, config) ==
    LET company == Or(Or(Or(Get(config, "company_name"), Get(config, "website_name")),
                         Get(config, "app_name")), S("Terms of Service"))
    IN  HtmlDocument("Terms of Service - " \o Str(company), WrapListItems(markdown_text))

\* the list `sections` of generate_tos when it is joined
tos_sections(config, now) ==
    Included(<<
            <<TRUE, tos_generate_header(config, now)>>,
            <<TRUE, tos_generate_agreement_section(config)>>,
            <<TRUE, tos_generate_definitions(config)>>,
            <<Truthy(Get(config, "requires_account")), tos_generate_account_terms(config)>>,
            <<Truthy(Get(config, "has_paid_services")), tos_generate_payment_terms(config)>>,
            <<Truthy(Get(config, "allows_user_content")), tos_generate_user_content_section(config)>>,
            <<TRUE, tos_generate_acceptable_use(config)>>,
            <<TRUE, tos_generate_intellectual_property(config)>>,
            <<Truthy(Get(config, "has_third_party_links")), tos_generate_third_party_section(config)>>,
            <<Truthy(Get(config, "provides_api")), tos_generate_api_terms(config)>>,
            <<TRUE, tos_generate_disclaimers(config)>>,
            <<TRUE, tos_generate_liability_limitation(config)>>,
            <<TRUE, tos_generate_indemnification(config)>>,
            <<TRUE, tos_generate_termination(config)>>,
            <<TRUE, tos_generate_governing_law(config)>>,
            <<Truthy(Get(config, "has_arbitration")) \/ Truthy(Get(config, "dispute_resolution")),
              tos_generate_dispute_resolution(config)>>,
            <<TRUE, tos_generate_changes_section(config)>>,
            <<TRUE, tos_generate_severability(config)>>,
            <<TRUE, tos_generate_contact_section(config)>> >>)

\* generate_tos(config, output_format), with the value datetime.now() returns
generate_tos(config, output_format, now) ==
    LET sections == tos_sections(config, now)
        tos_text == JoinLines(sections, <<Blank>>)
    IN  IF output_format = "html" THEN tos_convert_to_html(tos_text, config)
        ELSE tos_text

----------------------------------------------------------------------------
(* cookie_generator.py *)

cookie_generate_header(config, now) ==
    LET company == Or(Or(Get(config, "company_name"), Get(config, "website_name")),
                      S("Our Company"))
        date == Or(Get(config, "effective_date"), S(DateFmt(now)))
    IN  << H1("Cookie Policy"), Blank,
           P(<<Bd(Str(company))>>), Blank,
           P(<<Bd("Effective Date:"), T(" " \o Str(date))>>), Blank,
           P(<<Bd("Last Updated:"), T(" " \o DateFmt(now))>>) >>

cookie_generate_introduction(config) ==
    LET company == Or(Get(config, "company_name"), S("We"))
        website == Or(Get(config, "website_url"), S("our website"))
    IN  << H2("Introduction"), Blank,
           Pt("This Cookie Policy explains how " \o Str(company)
              \o " uses cookies and similar technologies when you visit " \o Str(website) \o "."),
           Blank,
           Pt("By using our website, you consent to the use of cookies in accordance with this Cookie Policy.") >>

cookie_generate_what_are_cookies(config) ==
    << H2("What Are Cookies?"), Blank,
       Pt("Cookies are small text files that are stored on your computer or mobile device when you visit a website."),
       Blank,
       Pt("Cookies can be \"persistent\" or \"session\" cookies:"),
       Li(<<Bd("Persistent cookies"), T(" remain on your device for a set period of time")>>),
       Li(<<Bd("Session cookies"), T(" are deleted when you close your web browser")>>), Blank,
       Pt("Cookies can also be \"first-party\" or \"third-party\" cookies:"),
       Li(<<Bd("First-party cookies"), T(" are set by the website you are visiting")>>),
       Li(<<Bd("Third-party cookies"), T(" are set by a third party")>>), Blank,
       H3("Similar Technologies"), Blank,
       Pt("In addition to cookies, we may use similar technologies such as:"),
       Li(<<Bd("Web beacons"), T(" (also known as pixel tags or clear GIFs)")>>),
       Li(<<Bd("Fingerprinting"), T(" - Collecting information about your device configuration")>>) >>

cookie_generate_how_we_use_cookies(config) ==
    LET purposes == Included(<<
            <<Truthy(Get(config, "uses_essential_cookies")),
              Li(<<Bd("Essential operations"), T(" - To make our website function properly")>>)>>,
            <<Truthy(Get(config, "uses_functional_cookies")),
              Li(<<Bd("Functionality"), T(" - To remember your preferences and settings")>>)>>,
            <<Truthy(Get(config, "uses_analytics")),
              Li(<<Bd("Analytics"), T(" - To understand how visitors use our website")>>)>>,
            <<Truthy(Get(config, "uses_advertising_cookies")),
              Li(<<Bd("Advertising"), T(" - To deliver relevant advertisements")>>)>>,
            <<Truthy(Get(config, "uses_social_cookies")),
              Li(<<Bd("Social media"), T(" - To enable social sharing and integration")>>)>>,
            <<Truthy(Get(config, "uses_performance_cookies")),
              Li(<<Bd("Performance"), T(" - To improve website speed and performance")>>)>> >>)
        purpose_list == IF purposes # <<>> THEN purposes
                        ELSE <<Lit("To provide and improve our services")>>
    IN  << H2("How We Use Cookies"), Blank,
           Pt("We use cookies and similar technologies for several purposes, including:"), Blank >>
        \o purpose_list \o
        << Blank, Pt("Cookies help us:"),
           Lit("Keep you signed in to your account"),
           Lit("Measure the effectiveness of our marketing campaigns") >>

cookie_generate_cookie_types(config) ==
    LET sections == <<<<H2("Types of Cookies We Use")>>>> \o Included(<<
            <<Truthy(Get(config, "uses_essential_cookies")),
              << H3("Essential Cookies"), Blank,
                 Pt("These cookies are necessary for the website to function properly, such as:"),
                 Lit("Setting your privacy preferences"), Lit("Using the shopping cart"), Blank,
                 Pt("You can set your browser to block or alert you about these cookies."), Blank,
                 P(<<Bd("Duration:"), T(" Session or up to 1 year")>>),
                 P(<<Bd("Type:"), T(" First-party")>>) >> >>,
            <<Truthy(Get(config, "uses_functional_cookies")),
              << H3("Functional Cookies"), Blank,
                 Pt("These cookies enable the website to provide enhanced functionality and personalization."),
                 Blank,
                 Pt("Examples include:"),
                 Lit("Remembering your language preference"), Lit("Providing live chat support"),
                 Blank,
                 Pt("If you do not allow these cookies, some or all of these features may not function properly."),
                 Blank,
                 P(<<Bd("Duration:"), T(" Up to 1 year")>>),
                 P(<<Bd("Type:"), T(" First-party and third-party")>>) >> >>,
            <<Truthy(Get(config, "uses_performance_cookies")),
              << H3("Performance Cookies"), Blank,
                 Pt("These cookies allow us to count visits and traffic sources. They help us understand:"),
                 Lit("Which pages are the most and least popular"),
                 Lit("If users encounter error messages"), Blank,
                 Pt("All information these cookies collect is aggregated and anonymous."), Blank,
                 P(<<Bd("Duration:"), T(" Up to 2 years")>>),
                 P(<<Bd("Type:"), T(" First-party and third-party")>>) >> >>,
            <<Truthy(Get(config, "uses_analytics")),
              << H3("Analytics Cookies"), Blank,
                 Pt("These cookies help us understand how visitors interact with our website. We use this data to:"),
                 Lit("Improve our website and services"),
                 Lit("Measure the effectiveness of our content"), Blank,
                 P(<<Bd("Duration:"), T(" Up to 2 years")>>),
                 P(<<Bd("Type:"), T(" First-party and third-party")>>) >> >>,
            <<Truthy(Get(config, "uses_advertising_cookies")),
              << H3("Advertising/Targeting Cookies"), Blank,
                 Pt("These cookies may be set through our website by our advertising partners. They may be used to:"),
                 Lit("Build a profile of your interests"),
                 Lit("Limit the number of times you see an advertisement"), Blank,
                 Pt("They do not directly store personal information."), Blank,
                 P(<<Bd("Duration:"), T(" Up to 2 years")>>),
                 P(<<Bd("Type:"), T(" Third-party")>>) >> >>,
            <<Truthy(Get(config, "uses_social_cookies")),
              << H3("Social Media Cookies"), Blank,
                 Pt("These cookies are set by social media services that we have added to the website. They are capable of:"),
                 Lit("Tracking your browser across other sites"),
                 Lit("Affecting the content and messages you see on other websites"), Blank,
                 P(<<Bd("Duration:"), T(" Varies by platform")>>),
                 P(<<Bd("Type:"), T(" Third-party")>>) >> >> >>)
    IN  JoinLines(sections, <<Blank>>)

\* one row of the table: cookie.get(field, default) for the five fields
cookie_detail_row(cookie) ==
    Ln("tr", <<T(Str(GetD(cookie, "name", S("Unknown"))) \o " | "
                 \o Str(GetD(cookie, "provider", S("First-party"))) \o " | "
                 \o Str(GetD(cookie, "purpose", S("Functionality"))) \o " | "
                 \o Str(GetD(cookie, "duration", S("Session"))) \o " | "
                 \o Str(GetD(cookie, "type", S("Essential"))))>>)

cookie_generate_cookie_details(config) ==
    LET cookies == GetD(config, "cookie_details", L(<<>>))
    IN  IF ~Truthy(cookies) THEN <<Blank>>
        ELSE << H2("Specific Cookies Used"), Blank,
                Pt("The following table lists the specific cookies used on our website:"), Blank,
                Ln("tr", <<T("Cookie Name | Provider | Purpose | Duration | Type")>>),
                Ln("tr", <<T("-------------|----------|---------|----------|------")>>) >>
             \o MapSeq(cookies.v, cookie_detail_row)

\* the test without the list of named third-party cookies
cookie_has_third_party_cookies_flags_only(config) ==
    AnyKey(config, <<"uses_google_analytics", "uses_facebook_pixel", "uses_hotjar",
                     "uses_hubspot", "uses_intercom", "uses_advertising_cookies">>)

cookie_has_third_party_cookies(config) ==
    AnyKey(config, <<"uses_google_analytics", "uses_facebook_pixel", "uses_hotjar",
                     "uses_hubspot", "uses_intercom", "uses_advertising_cookies",
                     "third_party_cookies">>)

\* the provider descriptions, each with the test that appends it
third_party_service_table(config) ==
    <<
            <<Truthy(Get(config, "uses_google_analytics")),
              << P(<<Bd("Google Analytics")>>),
                 Lit("Purpose: Website analytics and performance measurement"),
                 Lit("Privacy Policy: https://policies.google.com/privacy"),
                 Lit("Opt-out: https://tools.google.com/dlpage/gaoptout") >> >>,
            <<Truthy(Get(config, "uses_facebook_pixel")),
              << P(<<Bd("Facebook Pixel")>>),
                 Lit("Purpose: Advertising measurement and optimization"),
                 Lit("Privacy Policy: https://www.facebook.com/privacy/explanation"),
                 Lit("Opt-out: https://www.facebook.com/settings?tab=ads") >> >>,
            <<Truthy(Get(config, "uses_google_ads")),
              << P(<<Bd("Google Ads")>>),
                 Lit("Purpose: Advertising and remarketing"),
                 Lit("Privacy Policy: https://policies.google.com/privacy"),
                 Lit("Opt-out: https://adssettings.google.com") >> >>,
            <<Truthy(Get(config, "uses_hotjar")),
              << P(<<Bd("Hotjar")>>),
                 Lit("Purpose: User behavior analytics (heatmaps, recordings)"),
                 Lit("Privacy Policy: https://www.hotjar.com/legal/policies/privacy/"),
                 Lit("Opt-out: https://www.hotjar.com/policies/do-not-track/") >> >>,
            <<Truthy(Get(config, "uses_hubspot")),
              << P(<<Bd("HubSpot")>>),
                 Lit("Purpose: Marketing automation and CRM"),
                 Lit("Privacy Policy: https://legal.hubspot.com/privacy-policy") >> >>,
            <<Truthy(Get(config, "uses_intercom")),
              << P(<<Bd("Intercom")>>),
                 Lit("Purpose: Customer messaging and support"),
                 Lit("Privacy Policy: https://www.intercom.com/legal/privacy") >> >>,
            <<Truthy(Get(config, "uses_linkedin_insight")),
              << P(<<Bd("LinkedIn Insight Tag")>>),
                 Lit("Purpose: Advertising and analytics"),
                 Lit("Privacy Policy: https://www.linkedin.com/legal/privacy-policy"),
                 Lit("Opt-out: https://www.linkedin.com/psettings/guest-controls/retargeting-opt-out") >> >>,
            <<Truthy(Get(config, "uses_twitter_pixel")),
              << P(<<Bd("Twitter/X Pixel")>>),
                 Lit("Purpose: Advertising measurement"),
                 Lit("Privacy Policy: https://twitter.com/en/privacy") >> >>,
            <<Truthy(Get(config, "uses_tiktok_pixel")),
              << P(<<Bd("TikTok Pixel")>>),
                 Lit("Purpose: Advertising measurement"),
                 Lit("Privacy Policy: https://www.tiktok.com/legal/privacy-policy") >> >> >>

\* every description, whatever its test says
third_party_services_unfiltered(config) ==
    MapSeq(third_party_service_table(config), LAMBDA pair : pair[2])

\* services: the descriptions whose test holds, in the order of the code
third_party_services(config) == Included(third_party_service_table(config))

cookie_generate_third_party_cookies(config) ==
    LET services == third_party_services(config)
        sections == << <<H2("Third-Party Cookies")>>,
                       << Pt("We use cookies from third-party services on our website."), Blank,
                          H3("Third-Party Services We Use") >>,
                       IF services # <<>> THEN JoinLines(services, <<Blank>>)
                       ELSE <<Pt("We work with various third-party service providers. Please contact us for a complete list of third-party cookies used on our website.")>> >>
    IN  JoinLines(sections, <<Blank>>)

cookie_generate_analytics_section(config) ==
    LET provider == Or(Get(config, "analytics_provider"), S("analytics services"))
    IN  << H2("Analytics"), Blank,
           Pt("We use " \o Str(provider)
              \o " to analyze how visitors use our website. These services use cookies to collect information such as:"),
           Blank,
           Lit("How often users visit our website"),
           Lit("Technical information about their device and browser"), Blank,
           Pt("This information is used to improve our website and understand our audience better."),
           Blank,
           H3("Google Analytics (if applicable)"), Blank,
           Pt("If we use Google Analytics, we have implemented the following privacy-enhancing measures:"),
           Lit("IP anonymization is enabled"),
           Lit("Data sharing with Google is limited"),
           Lit("Advertising features are "
               \o (IF Truthy(Get(config, "uses_advertising_cookies")) THEN "enabled" ELSE "disabled")),
           Blank,
           Pt("You can opt out of Google Analytics by installing the Google Analytics opt-out browser add-on: https://tools.google.com/dlpage/gaoptout") >>

cookie_generate_advertising_section(config) ==
    << H2("Advertising and Targeting"), Blank,
       Pt("We use advertising cookies to:"),
       Lit("Deliver advertisements relevant to your interests"),
       Lit("Understand how you interact with advertisements"), Blank,
       H3("How Targeted Advertising Works"), Blank,
       Pt("When you visit our website, advertising partners may place cookies on your device to:"),
       Pt("1. Collect information about your browsing behavior"),
       Pt("2. Create a profile of your interests"),
       Pt("3. Show you relevant ads on other websites you visit"), Blank,
       H3("Remarketing"), Blank,
       Pt("We may use remarketing services to show you advertisements on third-party websites."), Blank,
       H3("Opting Out of Targeted Advertising"), Blank,
       Pt("You can opt out of targeted advertising through:"),
       Li(<<Bd("Your browser settings"), T(" - Block third-party cookies")>>),
       Li(<<Bd("Industry opt-out tools:")>>),
       Pt("- Digital Advertising Alliance: https://optout.aboutads.info"),
       Pt("- Network Advertising Initiative: https://optout.networkadvertising.org"),
       Pt("- European Interactive Digital Advertising Alliance: https://www.youronlinechoices.eu"),
       Li(<<Bd("Platform-specific settings"), T(" - Adjust ad preferences on Google, Facebook, etc.")>>) >>

\* a faulty predicate that overlooks uses_social_cookies
cookie_has_social_cookies_narrow(config) ==
    AnyKey(config, <<"uses_facebook_cookies", "uses_twitter_cookies", "uses_linkedin_cookies",
                     "uses_instagram_cookies", "uses_youtube_cookies",
                     "social_sharing_enabled">>)

cookie_has_social_cookies(config) ==
    AnyKey(config, <<"uses_facebook_cookies", "uses_twitter_cookies", "uses_linkedin_cookies",
                     "uses_instagram_cookies", "uses_youtube_cookies", "uses_social_cookies",
                     "social_sharing_enabled">>)

cookie_generate_social_media_section(config) ==
    LET platforms == Included(<<
            <<Truthy(Get(config, "uses_facebook_cookies")) \/ Truthy(Get(config, "social_sharing_enabled")),
              Li(<<Bd("Facebook"), T(" - Social sharing, like buttons, and login")>>)>>,
            <<Truthy(Get(config, "uses_twitter_cookies")) \/ Truthy(Get(config, "social_sharing_enabled")),
              Li(<<Bd("Twitter/X"), T(" - Tweet buttons and embedded content")>>)>>,
            <<Truthy(Get(config, "uses_linkedin_cookies")),
              Li(<<Bd("LinkedIn"), T(" - Share buttons and professional networking")>>)>>,
            <<Truthy(Get(config, "uses_instagram_cookies")),
              Li(<<Bd("Instagram"), T(" - Embedded posts and sharing")>>)>>,
            <<Truthy(Get(config, "uses_youtube_cookies")),
              Li(<<Bd("YouTube"), T(" - Embedded videos and watch history")>>)>>,
            <<Truthy(Get(config, "uses_pinterest_cookies")),
              Li(<<Bd("Pinterest"), T(" - Pin buttons and embedded content")>>)>> >>)
        platform_list == IF platforms # <<>> THEN platforms
                         ELSE <<Lit("Various social media platforms")>>
    IN  << H2("Social Media Cookies"), Blank,
           Pt("We integrate with social media platforms. These platforms may set cookies when you:"),
           Lit("Use social sharing buttons on our website"),
           Lit("View embedded social media content"), Blank,
           H3("Platforms We Integrate With"), Blank >>
        \o platform_list \o
        << Blank, H3("What These Cookies Do"), Blank,
           Pt("Social media cookies allow the respective platforms to:"),
           Lit("Recognize that you have an account with them"),
           Lit("Measure the effectiveness of their advertising"), Blank,
           H3("Managing Social Media Cookies"), Blank,
           Pt("To control social media cookies, you should adjust your privacy settings directly on each platform:"),
           Lit("Facebook: https://www.facebook.com/settings?tab=privacy"),
           Lit("Google: https://myaccount.google.com/privacy") >>

\* the template is a plain string, not an f-string: the braces and the expressions between
\* them are part of the text, and no key of config is read
cookie_generate_managing_cookies(config) ==
    << H2("Managing Cookies"), Blank,
       Pt("You have the right to decide whether to accept or reject cookies."), Blank,
       H3("Browser Settings"), Blank,
       Pt("Most web browsers allow you to control cookies through their settings. You can:"),
       Li(<<Bd("View cookies"), T(" stored on your device")>>),
       Li(<<Bd("Allow cookies"), T(" from specific websites only")>>), Blank,
       Pt("Here's how to manage cookies in popular browsers:"),
       Li(<<Bd("Chrome"), T(": Settings > Privacy and Security > Cookies")>>),
       Li(<<Bd("Edge"), T(": Settings > Privacy & Security > Cookies")>>), Blank,
       H3("Cookie Consent Tool"), Blank,
       Pt("{\"We provide a cookie consent banner when you first visit our website.\" if config.get(\"has_cookie_consent\") else \"You can manage your cookie preferences through your browser settings.\"}"),
       Blank,
       H3("Do Not Track"), Blank,
       Pt("Some browsers have a \"Do Not Track\" feature. {\"We honor Do Not Track signals.\" if config.get(\"honors_dnt\") else \"Please note that we may not respond to Do Not Track signals.\"}"),
       Blank,
       H3("Impact of Disabling Cookies"), Blank,
       Pt("If you choose to disable cookies, please be aware that:"),
       Lit("Some features of our website may not function properly"),
       Lit("You may still see advertisements, but they will be less relevant") >>

\* a plain string as well
cookie_generate_cookie_consent(config) ==
    << H2("Cookie Consent"), Blank,
       Pt("When you first visit our website, we display a cookie consent banner that allows you to:"),
       Li(<<Bd("Accept all cookies"), T(" - Allow all types of cookies")>>),
       Li(<<Bd("Reject non-essential cookies"), T(" - Only allow essential cookies")>>),
       Li(<<Bd("Customize preferences"), T(" - Choose which categories of cookies to allow")>>),
       Blank,
       H3("Your Consent Choices"), Blank,
       Pt("Your consent choices are stored in a cookie on your device."), Blank,
       H3("Withdrawing Consent"), Blank,
       Pt("You can withdraw your consent at any time by:"),
       Lit("Clicking the \"Cookie Settings\" link in our website footer"),
       Lit("Contacting us to request that we delete your data"), Blank,
       H3("Consent for Children"), Blank,
       Pt("{\"We do not knowingly collect data from children under 13.\" if not config.get(\"allows_children\") else \"Our website may be used by children with parental consent.\"}") >>

cookie_generate_gdpr_section(config) ==
    << H2("EU/GDPR Cookie Compliance"), Blank,
       Pt("If you are located in the European Economic Area (EEA), United Kingdom, or Switzerland, you have specific rights regarding cookies."),
       Blank,
       H3("Legal Basis for Cookies"), Blank,
       Pt("We use cookies based on the following legal grounds:"),
       Li(<<Bd("Consent"), T(" - For non-essential cookies (analytics, advertising, etc.)")>>),
       Li(<<Bd("Legitimate interest"), T(" - For essential cookies required for website functionality")>>),
       Blank,
       H3("Your Rights"), Blank,
       Pt("Under GDPR, you have the right to:"),
       Li(<<Bd("Be informed"), T(" - Know what cookies we use and why")>>),
       Li(<<Bd("Erasure"), T(" - Request deletion of cookie data we hold about you")>>), Blank,
       H3("Cookie Consent Requirements"), Blank,
       Pt("In accordance with EU law:"),
       Lit("We obtain consent before placing non-essential cookies"),
       Lit("We do not use pre-ticked consent boxes"), Blank,
       H3("Contact Your Data Protection Authority"), Blank,
       Pt("If you have concerns about our use of cookies, you can contact your local data protection authority.") >>

cookie_generate_changes_section(config) ==
    << H2("Changes to This Cookie Policy"), Blank,
       Pt("We may update this Cookie Policy from time to time to reflect:"),
       Lit("Changes in the cookies we use"),
       Lit("Changes in our data practices"), Blank,
       Pt("When we make changes, we will:"),
       Lit("Update the \"Last Updated\" date at the top of this policy"),
       Lit("Obtain new consent if required by law"), Blank,
       Pt("We encourage you to review this Cookie Policy periodically to stay informed about our use of cookies.") >>

cookie_generate_contact_section(config) ==
    LET company == Or(Or(Get(config, "company_name"), Get(config, "website_name")), S("Us"))
        contact_info == Included(<<
            <<Truthy(Get(config, "contact_email")),
              P(<<Bd("Email:"), T(" " \o Str(Get(config, "contact_email")))>>)>>,
            <<Truthy(Get(config, "privacy_email")),
              P(<<Bd("Privacy Email:"), T(" " \o Str(Get(config, "privacy_email")))>>)>>,
            <<Truthy(Get(config, "company_address")),
              P(<<Bd("Address:"), T(" " \o Str(Get(config, "company_address")))>>)>>,
            <<Truthy(Get(config, "website_url")),
              P(<<Bd("Website:"), T(" " \o Str(Get(config, "website_url")))>>)>> >>)
        contact_list == IF contact_info # <<>> THEN contact_info
                        ELSE <<Pt("Please visit our website for contact information.")>>
    IN  << H2("Contact Us"), Blank,
           Pt("If you have any questions about this Cookie Policy or our use of cookies, please contact us:"),
           Blank,
           P(<<Bd(Str(company))>>), Blank >>
        \o contact_list \o
        << Blank, Pt("For privacy-related inquiries, you can also refer to our Privacy Policy.") >>

cookie_convert_to_html(markdown_text, config) ==
    LET company == Or(Or(Get(config, "company_name"), Get(config, "website_name")),
                      S("Cookie Policy"))
    IN  HtmlDocument("Cookie Policy - " \o Str(company), WrapListItems(markdown_text))

\* a faulty list that appends the contact section before the introduction
cookie_sections_contact_first(config, now) ==
    << cookie_generate_header(config, now), cookie_generate_contact_section(config),
       cookie_generate_introduction(config), cookie_generate_managing_cookies(config) >>

\* the list `sections` of generate_cookie_policy when it is joined
cookie_sections(config, now) ==
    Included(<<
            <<TRUE, cookie_generate_header(config, now)>>,
            <<TRUE, cookie_generate_introduction(config)>>,
            <<TRUE, cookie_generate_what_are_cookies(config)>>,
            <<TRUE, cookie_generate_how_we_use_cookies(config)>>,
            <<TRUE, cookie_generate_cookie_types(config)>>,
            <<Truthy(Get(config, "cookie_details")), cookie_generate_cookie_details(config)>>,
            <<cookie_has_third_party_cookies(config), cookie_generate_third_party_cookies(config)>>,
            <<Truthy(Get(config, "uses_analytics")), cookie_generate_analytics_section(config)>>,
            <<Truthy(Get(config, "uses_advertising_cookies")),
              cookie_generate_advertising_section(config)>>,
            <<cookie_has_social_cookies(config), cookie_generate_social_media_section(config)>>,
            <<TRUE, cookie_generate_managing_cookies(config)>>,
            <<Truthy(Get(config, "has_cookie_consent")), cookie_generate_cookie_consent(config)>>,
            <<Truthy(Get(config, "gdpr_compliant")), cookie_generate_gdpr_section(config)>>,
            <<TRUE, cookie_generate_changes_section(config)>>,
            <<TRUE, cookie_generate_contact_section(config)>> >>)

\* generate_cookie_policy(config, output_format), with the value datetime.now() returns
generate_cookie_policy(config, output_format, now) ==
    LET sections == cookie_sections(config, now)
        policy_text == JoinLines(sections, <<Blank>>)
    IN  IF output_format = "html" THEN cookie_convert_to_html(policy_text, config)
        ELSE policy_text

----------------------------------------------------------------------------
(* An exception raised inside a generator is returned in place of the text *)

Raised(exception) == <<Ln("raise", <<T(exception)>>)>>
IsRaised(content) == content # <<>> /\ content[1].k = "raise"

----------------------------------------------------------------------------
(* eula_generator.py *)

eula_generate_header(config, now) ==
    LET company_name == Or(Get(config, "company_name"), S("Company"))
        app_name == Or(Or(Get(config, "app_name"), Get(config, "website_name")), S("Application"))
        effective_date == Or(Get(config, "effective_date"), S(DateFmt(now)))
    IN  << H1("End User License Agreement (EULA)"), Blank,
           P(<<Bd(Str(company_name))>>), Blank,
           P(<<Bd(Str(app_name))>>), Blank,
           P(<<Bd("Effective Date:"), T(" " \o Str(effective_date))>>), Blank,
           P(<<Bd("Last Updated:"), T(" " \o DateFmt(now))>>) >>

eula_introduction(config) ==
    LET company_name == Or(Get(config, "company_name"), S("Company"))
        app_name == Or(Or(Get(config, "app_name"), Get(config, "website_name")), S("Application"))
    IN  << Blank, H2("Introduction"), Blank,
           Pt("This End User License Agreement is a legal agreement between you and "
              \o Str(company_name) \o " for the use of " \o Str(app_name) \o "."), Blank,
           Pt("By installing, copying, or otherwise using the Software, you agree to be bound by the terms of this Agreement."),
           Blank,
           Pt("This Agreement applies to all versions of the Software, including any updates, upgrades, or new releases.") >>

\* the phrase chosen when a missing license_type is read as None
eula_license_text_without_default(config) ==
    LET license_type == Get(config, "license_type")
    IN  IF license_type = S("perpetual") THEN "a perpetual, non-exclusive license"
        ELSE IF license_type = S("subscription")
        THEN "a limited, non-exclusive, subscription-based license"
        ELSE "a limited, non-exclusive license"

\* license_text
eula_license_text(config) ==
    LET license_type == GetD(config, "license_type", S("subscription"))
    IN  IF license_type = S("perpetual") THEN "a perpetual, non-exclusive license"
        ELSE IF license_type = S("subscription")
        THEN "a limited, non-exclusive, subscription-based license"
        ELSE "a limited, non-exclusive license"

eula_license_grant(config) ==
    LET company_name == Or(Get(config, "company_name"), S("Company"))
        transferable == GetD(config, "is_transferable", B(FALSE))
        license_text == eula_license_text(config)
        transfer_text == IF Truthy(transferable)
            THEN "This license is transferable to another party with our prior written consent."
            ELSE "This license is non-transferable and may not be assigned to any third party."
    IN  << Blank, H2("License Grant"), Blank,
           Pt("Subject to the terms and conditions of this Agreement, " \o Str(company_name)
              \o " hereby grants you " \o license_text \o " to:"), Blank,
           Lit("Install and use the Software on devices that you own or control"),
           Lit("Use the Software for your personal or internal business purposes"),
           Lit("Make a reasonable number of copies of the Software for backup purposes"), Blank,
           Pt(transfer_text), Blank,
           Pt("This license does not include the right to sublicense the Software to third parties.") >>

eula_license_restrictions(config) ==
    LET restrictions == Included(<<
            <<Truthy(GetD(config, "no_reverse_engineering", B(TRUE))),
              "Reverse engineer, decompile, disassemble, or otherwise attempt to derive the source code of the Software">>,
            <<Truthy(GetD(config, "no_modification", B(TRUE))),
              "Modify, adapt, translate, or create derivative works based on the Software">>,
            <<Truthy(GetD(config, "no_redistribution", B(TRUE))),
              "Distribute, sublicense, lease, rent, loan, or otherwise transfer the Software to any third party">>,
            <<Truthy(GetD(config, "no_commercial_use", B(FALSE))),
              "Use the Software for commercial purposes without obtaining a commercial license">> >>)
            \o << "Remove, alter, or obscure any proprietary notices, labels, or marks on the Software",
                  "Use the Software in any way that violates applicable laws or regulations",
                  "Use the Software to transmit malware, viruses, or other harmful code",
                  "Use the Software to infringe upon the intellectual property rights of others",
                  "Use the Software to collect or harvest personal information without consent" >>
    IN  << Blank, H2("License Restrictions"), Blank,
           Pt("You agree NOT to:"), Blank >>
        \o MapSeq(restrictions, Lit) \o
        << Blank, Pt("Any violation of these restrictions may result in immediate termination of this license.") >>

eula_intellectual_property(config) ==
    LET company_name == Or(Get(config, "company_name"), S("Company"))
    IN  << Blank, H2("Intellectual Property Rights"), Blank,
           Pt("The Software and all copies thereof are proprietary to " \o Str(company_name)
              \o " and title thereto remains exclusively with " \o Str(company_name) \o "."), Blank,
           Pt("The Software contains valuable trade secrets and proprietary information belonging to "
              \o Str(company_name) \o "."), Blank,
           H3("Ownership"), Blank,
           Lit("The Software is owned by " \o Str(company_name)),
           Lit("This Agreement does not grant you any ownership rights to the Software"),
           Lit("All trademarks, service marks, and trade names are the property of " \o Str(company_name)),
           Blank,
           H3("Feedback"), Blank,
           Pt("If you provide any feedback, you grant " \o Str(company_name)
              \o " a perpetual, irrevocable, royalty-free license to use such feedback for any purpose.") >>

eula_user_accounts(config) ==
    << Blank, H2("User Accounts"), Blank,
       H3("Account Creation"), Blank,
       Pt("To access certain features of the Software, you may be required to create an account. You agree to:"),
       Blank,
       Lit("Provide accurate, current, and complete information during registration"),
       Lit("Notify us immediately of any unauthorized use of your account"), Blank,
       H3("Account Termination"), Blank,
       Pt("We reserve the right to suspend or terminate your account at any time for:"), Blank,
       Lit("Violation of this Agreement"),
       Lit("Non-payment of applicable fees"), Blank,
       Pt("Upon termination, your right to use the Software will immediately cease.") >>

eula_subscription_terms(config) ==
    LET billing_cycle == GetD(config, "billing_cycle", S("monthly"))
        auto_renew == GetD(config, "auto_renewal", B(TRUE))
        renewal_text == IF Truthy(auto_renew)
            THEN "Your subscription will automatically renew at the end of each billing period unless you cancel before the renewal date. You authorize us to charge your payment method for each renewal period."
            ELSE "Your subscription will not automatically renew. You must manually renew your subscription before it expires to continue using the Software."
    IN  << Blank, H2("Subscription Terms"), Blank,
           H3("Billing"), Blank,
           Lit("Subscription fees are billed " \o Str(billing_cycle)),
           Lit("All fees are non-refundable unless otherwise stated"),
           Lit("Prices are subject to change with reasonable notice"), Blank,
           H3("Auto-Renewal"), Blank,
           Pt(renewal_text), Blank,
           H3("Cancellation"), Blank,
           Pt("You may cancel your subscription at any time through your account settings or by contacting us.") >>

eula_free_trial(config) ==
    LET trial_period == GetD(config, "trial_period", S("14 days"))
    IN  << Blank, H2("Free Trial"), Blank,
           Pt("We may offer a free trial period of " \o Str(trial_period)
              \o " for new users. During the trial:"), Blank,
           Lit("You will have access to the Software's features as specified"),
           Lit("No payment is required during the trial period"),
           Lit("Your trial may convert to a paid subscription automatically unless cancelled"), Blank,
           Pt("We reserve the right to limit free trials to one per user or household.") >>

eula_updates(config) ==
    << Blank, H2("Updates and Upgrades"), Blank,
       H3("Automatic Updates"), Blank,
       Pt("The Software may automatically download and install updates."), Blank,
       H3("Update Terms"), Blank,
       Lit("Updates are provided at our sole discretion"),
       Lit("We are not obligated to provide updates or support for older versions"), Blank,
       H3("Changes to Features"), Blank,
       Pt("We reserve the right to modify, suspend, or discontinue any feature of the Software at any time with or without notice.") >>

eula_data_collection(config) ==
    LET website_url == Or(Get(config, "website_url"), S("https://example.com"))
    IN  << Blank, H2("Data Collection and Privacy"), Blank,
           H3("Information We Collect"), Blank,
           Pt("The Software may collect certain information, including:"), Blank,
           Lit("Device information (hardware model, operating system, unique identifiers)"),
           Lit("Any data you choose to store or process through the Software"), Blank,
           H3("Use of Data"), Blank,
           Pt("We use collected data to:"), Blank,
           Lit("Provide and improve the Software"),
           Lit("Communicate with you about updates and changes"), Blank,
           H3("Privacy Policy"), Blank,
           Pt("For complete information about our data practices, please review our Privacy Policy at "
              \o Str(website_url) \o "/privacy.") >>

eula_third_party(config) ==
    << Blank, H2("Third-Party Components"), Blank,
       H3("Third-Party Software"), Blank,
       Pt("The Software may include third-party software components subject to separate license terms."),
       Blank,
       H3("Third-Party Services"), Blank,
       Pt("The Software may integrate with or provide access to third-party services. We are not responsible for:"),
       Blank,
       Lit("The availability or functionality of third-party services"),
       Lit("Any damages arising from your use of third-party services"), Blank,
       Pt("Your use of third-party services is at your own risk and subject to their terms of service.") >>

eula_warranty(config) ==
    LET company_name == Or(Get(config, "company_name"), S("Company"))
        warranty_period == Get(config, "warranty_period")
    IN  IF Truthy(warranty_period)
        THEN << Blank, H2("Limited Warranty"), Blank,
                Pt(Str(company_name) \o " warrants that for a period of " \o Str(warranty_period)
                   \o " from the date of purchase, the Software will perform substantially in accordance with its documentation."),
                Blank,
                H3("Warranty Remedies"), Blank,
                Pt("If the Software does not meet this warranty, your exclusive remedy is:"), Blank,
                Lit("Repair or replacement of the Software, or"),
                Lit("A refund of the license fee paid"), Blank,
                Pt("This warranty does not apply to issues caused by misuse, unauthorized modification, or use with incompatible systems.") >>
        ELSE << Blank, H2("Disclaimer of Warranties"), Blank,
                Pt("THE SOFTWARE IS PROVIDED \"AS IS\" AND \"AS AVAILABLE\" WITHOUT WARRANTY OF ANY KIND, EXPRESS OR IMPLIED."),
                Blank,
                Pt(Upper(Str(company_name)) \o " DISCLAIMS ALL WARRANTIES, INCLUDING BUT NOT LIMITED TO:"),
                Blank,
                Lit("WARRANTIES OF MERCHANTABILITY"),
                Lit("WARRANTIES REGARDING SECURITY, RELIABILITY, OR ACCURACY"), Blank,
                Pt("WE DO NOT WARRANT THAT:"), Blank,
                Lit("The Software will meet your requirements"),
                Lit("The Software is free of viruses or other harmful components") >>

\* liability_cap.upper() is defined on strings only
eula_liability_raises(config) ==
    GetD(config, "liability_cap",
         S("amount paid for the Software in the 12 months preceding the claim")).t # "str"

eula_liability(config) ==
    LET company_name == Or(Get(config, "company_name"), S("Company"))
        liability_cap == GetD(config, "liability_cap",
                              S("amount paid for the Software in the 12 months preceding the claim"))
    IN  << Blank, H2("Limitation of Liability"), Blank,
           H3("Exclusion of Damages"), Blank,
           Pt("TO THE MAXIMUM EXTENT PERMITTED BY LAW, IN NO EVENT SHALL " \o Upper(Str(company_name))
              \o " BE LIABLE FOR ANY:"), Blank,
           Lit("Indirect, incidental, special, consequential, or punitive damages"),
           Lit("Damages arising from interruption of use or loss of data"), Blank,
           H3("Liability Cap"), Blank,
           Pt(Upper(Str(company_name)) \o "'S TOTAL LIABILITY SHALL NOT EXCEED THE "
              \o Upper(liability_cap.v) \o "."), Blank,
           H3("Essential Purpose"), Blank,
           Pt("Some jurisdictions do not allow the exclusion or limitation of certain damages.") >>

eula_indemnification(config) ==
    LET company_name == Or(Get(config, "company_name"), S("Company"))
    IN  << Blank, H2("Indemnification"), Blank,
           Pt("You agree to indemnify, defend, and hold harmless " \o Str(company_name)
              \o ", its officers, directors, employees, agents, and affiliates from any claims arising from:"),
           Blank,
           Lit("Your use of the Software"),
           Lit("Your violation of any applicable laws or regulations") >>

eula_termination(config) ==
    << Blank, H2("Term and Termination"), Blank,
       H3("Term"), Blank,
       Pt("This Agreement is effective until terminated by either party."), Blank,
       H3("Termination by You"), Blank,
       Pt("You may terminate this Agreement at any time by:"), Blank,
       Lit("Uninstalling and destroying all copies of the Software"),
       Lit("Notifying us in writing of your intent to terminate"), Blank,
       H3("Termination by Us"), Blank,
       Pt("We may terminate this Agreement immediately if you:"), Blank,
       Lit("Breach any term of this Agreement"),
       Lit("Engage in conduct that harms us or other users"), Blank,
       H3("Effects of Termination"), Blank,
       Pt("Upon termination:"), Blank,
       Lit("All rights granted to you under this Agreement cease immediately"),
       Lit("Termination does not relieve you of payment obligations incurred before termination"),
       Blank,
       H3("Survival"), Blank,
       Pt("The following sections survive termination: Intellectual Property Rights, Disclaimer of Warranties, Limitation of Liability, Indemnification, and General Provisions.") >>

eula_export_compliance(config) ==
    << Blank, H2("Export Compliance"), Blank,
       Pt("The Software may be subject to export control laws and regulations. You agree to:"), Blank,
       Lit("Comply with all applicable export and import laws"),
       Lit("Not export or re-export the Software to prohibited countries or persons"), Blank,
       Pt("You represent that you are not located in a country subject to embargo and are not on any prohibited party list.") >>

eula_governing_law(config) ==
    LET jurisdiction == GetD(config, "jurisdiction", S("the State of Delaware"))
        dispute_resolution == GetD(config, "dispute_resolution", S("binding arbitration"))
    IN  << Blank, H2("Governing Law and Disputes"), Blank,
           H3("Governing Law"), Blank,
           Pt("This Agreement shall be governed by and construed in accordance with the laws of "
              \o Str(jurisdiction) \o ", without regard to its conflict of law provisions."), Blank,
           H3("Dispute Resolution"), Blank,
           Pt("Any dispute arising from this Agreement shall be resolved through "
              \o Str(dispute_resolution) \o "."), Blank,
           H3("Class Action Waiver"), Blank,
           Pt("You agree to resolve disputes with us on an individual basis."), Blank,
           H3("Venue"), Blank,
           Pt("Any legal proceedings shall be conducted in the courts located in "
              \o Str(jurisdiction) \o ".") >>

eula_general_provisions(config) ==
    LET company_name == Or(Get(config, "company_name"), S("Company"))
        company_address == Or(Get(config, "company_address"), S(""))
        contact_email == Or(Get(config, "contact_email"), S(""))
    IN  << Blank, H2("General Provisions"), Blank,
           H3("Entire Agreement"), Blank,
           Pt("This Agreement constitutes the entire agreement between you and " \o Str(company_name)
              \o " regarding the Software and supersedes all prior agreements and understandings."),
           Blank,
           H3("Severability"), Blank,
           Pt("If any provision of this Agreement is found to be unenforceable, the remaining provisions will continue in full force and effect."),
           Blank,
           H3("Waiver"), Blank,
           Pt("Our failure to enforce any right or provision of this Agreement will not be deemed a waiver of such right or provision."),
           Blank,
           H3("Assignment"), Blank,
           Pt("You may not assign or transfer this Agreement without our prior written consent."), Blank,
           H3("Notices"), Blank,
           Pt("Any notices under this Agreement shall be sent to:"), Blank,
           P(<<Bd(Str(company_name))>>),
           Pt(IF Truthy(company_address) THEN Str(company_address) ELSE "[Company Address]"),
           Pt("Email: " \o (IF Truthy(contact_email) THEN Str(contact_email) ELSE "[Contact Email]")),
           Blank,
           H3("Force Majeure"), Blank,
           Pt("We shall not be liable for any failure to perform due to causes beyond our reasonable control."),
           Blank,
           H3("Headings"), Blank,
           Pt("Section headings are for convenience only and do not affect the interpretation of this Agreement.") >>

eula_contact_information(config) ==
    LET company_name == Or(Get(config, "company_name"), S("Company"))
        website_url == Or(Get(config, "website_url"), S("https://example.com"))
        company_address == Or(Get(config, "company_address"), S(""))
        contact_email == Or(Get(config, "contact_email"), S(""))
    IN  << Blank, H2("Contact Information"), Blank,
           Pt("If you have any questions about this Agreement, please contact us:"), Blank,
           P(<<Bd(Str(company_name))>>),
           PtOrBlank(IF Truthy(company_address) THEN "Address: " \o Str(company_address) ELSE ""),
           PtOrBlank(IF Truthy(contact_email) THEN "Email: " \o Str(contact_email) ELSE ""),
           PtOrBlank(IF Truthy(website_url) THEN "Website: " \o Str(website_url) ELSE ""),
           Blank,
           Pt("---"), Blank,
           P(<<Bd("BY INSTALLING OR USING THE SOFTWARE, YOU ACKNOWLEDGE THAT YOU HAVE READ THIS AGREEMENT, UNDERSTAND IT, AND AGREE TO BE BOUND BY ITS TERMS AND CONDITIONS.")>>) >>

----------------------------------------------------------------------------
(* convert_to_html of the EULA and refund generators *)

RECURSIVE Flatten(_, _, _)
\* the concatenation of groups[lo..hi]
Flatten(groups, lo, hi) ==
    IF lo > hi THEN <<>>
    ELSE IF lo = hi THEN groups[lo]
    ELSE LET mid == (lo + hi) \div 2
         IN  Flatten(groups, lo, mid) \o Flatten(groups, mid + 1, hi)

\* headings and bold; a "- " or "1. " line is left to the list pass
HtmlInline(l) ==
    CASE l.k = "h1" -> <<"<h1>">> \o SpansHtml(l.t) \o <<"</h1>">>
      [] l.k = "h2" -> <<"<h2>">> \o SpansHtml(l.t) \o <<"</h2>">>
      [] l.k = "h3" -> <<"<h3>">> \o SpansHtml(l.t) \o <<"</h3>">>
      [] l.k = "ol" -> <<ToString(l.n) \o ". ">> \o SpansHtml(l.t)
      [] OTHER -> SpansHtml(l.t)

\* does the converted line start with "<" / end with ">"
StartsLt(l, numbered) ==
    \/ l.k \in {"h1", "h2", "h3", "li", "tag"}
    \/ l.k = "ol" /\ numbered
    \/ l.k = "p" /\ l.t # <<>> /\ l.t[1].b
EndsGt(l, numbered) ==
    \/ l.k \in {"h1", "h2", "h3", "li", "tag"}
    \/ l.k = "ol" /\ (numbered \/ (l.t # <<>> /\ l.t[Len(l.t)].b))
    \/ l.k = "p" /\ l.t # <<>> /\ l.t[Len(l.t)].b

Tag(s) == Ln("tag", <<T(s)>>)

\* the loop over lines: numbered items (refund only) open <ol>, "- " items open <ul>,
\* any other line closes the list that is open
ListPass(lines, numbered) ==
    LET n == Len(lines)
        IsOl(i) == i >= 1 /\ i <= n /\ numbered /\ lines[i].k = "ol"
        IsUl(i) == i >= 1 /\ i <= n /\ lines[i].k = "li"
        group(i) ==
            (IF IsUl(i - 1) /\ ~IsUl(i) THEN <<Tag("</ul>")>> ELSE <<>>)
            \o (IF IsOl(i - 1) /\ ~IsOl(i) THEN <<Tag("</ol>")>> ELSE <<>>)
            \o (IF IsOl(i) /\ ~IsOl(i - 1) THEN <<Tag("<ol>")>> ELSE <<>>)
            \o (IF IsUl(i) /\ ~IsUl(i - 1) THEN <<Tag("<ul>")>> ELSE <<>>)
            \o <<lines[i]>>
        closing == (IF IsUl(n) THEN <<Tag("</ul>")>> ELSE <<>>)
                   \o (IF IsOl(n) THEN <<Tag("</ol>")>> ELSE <<>>)
    IN  Flatten([i \in 1..n |-> group(i)], 1, n) \o closing

RECURSIVE BlankRunBefore(_, _)
\* the number of consecutive empty lines that end just before line i
BlankRunBefore(lines, i) ==
    IF i <= 1 \/ lines[i - 1].k # "blank" THEN 0 ELSE 1 + BlankRunBefore(lines, i - 1)

RECURSIVE BlankRunAfter(_, _)
\* the number of consecutive empty lines that start just after line i
BlankRunAfter(lines, i) ==
    IF i >= Len(lines) \/ lines[i + 1].k # "blank" THEN 0 ELSE 1 + BlankRunAfter(lines, i + 1)

\* the two paragraph substitutions, r'\n\n([^<])' -> '\n\n<p>\1' and then
\* r'([^>])\n\n' -> '\1</p>\n\n', worked out line by line: "before" is the number of
\* newlines of the run of empty lines that precede line i, "total" the length of that run
ParagraphPass(lines, numbered) ==
    LET n == Len(lines)
        blank(i) == lines[i].k = "blank"
        prev(i) == i - 1 - BlankRunBefore(lines, i)
        next(i) == i + 1 + BlankRunAfter(lines, i)
        \* newlines between line a (0: the start of the text) and line b (n + 1: its end)
        newlines(a, b) == (b - a) - (IF a = 0 THEN 1 ELSE 0) - (IF b = n + 1 THEN 1 ELSE 0)
        before(i) == (i - prev(i)) - (IF prev(i) = 0 THEN 1 ELSE 0)
        text(i) == IF lines[i].k = "li" \/ (lines[i].k = "ol" /\ numbered)
                   THEN <<"<li>">> \o SpansHtml(lines[i].t) \o <<"</li>">>
                   ELSE HtmlInline(lines[i])
        line(i) ==
            IF blank(i)
            THEN LET total == newlines(prev(i), next(i))
                 IN  IF before(i) % 3 = 2 /\ before(i) + 1 <= total THEN <<"<p>">>
                     ELSE IF before(i) % 3 = 0 /\ before(i) >= 3 /\ before(i) + 2 <= total
                     THEN <<"</p>">>
                     ELSE <<>>
            ELSE (IF newlines(prev(i), i) % 3 = 2 /\ ~StartsLt(lines[i], numbered) THEN <<"<p>">>
                  ELSE <<>>)
                 \o text(i)
                 \o (IF newlines(i, next(i)) >= 2 /\ ~EndsGt(lines[i], numbered) THEN <<"</p>">>
                     ELSE <<>>)
    IN  [i \in 1..n |-> RawLine(line(i))]

convert_to_html(markdown_content, title, numbered) ==
    HtmlDocument(title, ParagraphPass(ListPass(markdown_content, numbered), numbered))

\* the test read as "a subscription, by the flag or by the license type"
eula_has_subscription_terms_by_license(config) ==
    \/ Truthy(GetD(config, "is_subscription", B(FALSE)))
    \/ GetD(config, "license_type", S("subscription")) = S("subscription")

\* if config.get("is_subscription", False):
eula_has_subscription_terms(config) == Truthy(GetD(config, "is_subscription", B(FALSE)))

\* the list `sections` of generate_eula when it is joined
eula_sections(config, now) ==
    Included(<<
            <<TRUE, eula_generate_header(config, now)>>,
            <<TRUE, eula_introduction(config)>>,
            <<TRUE, eula_license_grant(config)>>,
            <<TRUE, eula_license_restrictions(config)>>,
            <<TRUE, eula_intellectual_property(config)>>,
            <<Truthy(GetD(config, "requires_account", B(FALSE))), eula_user_accounts(config)>>,
            <<eula_has_subscription_terms(config), eula_subscription_terms(config)>>,
            <<Truthy(GetD(config, "has_free_trial", B(FALSE))), eula_free_trial(config)>>,
            <<TRUE, eula_updates(config)>>,
            <<Truthy(GetD(config, "collects_data", B(TRUE))), eula_data_collection(config)>>,
            <<Truthy(GetD(config, "uses_third_party", B(TRUE))), eula_third_party(config)>>,
            <<TRUE, eula_warranty(config)>>,
            <<TRUE, eula_liability(config)>>,
            <<TRUE, eula_indemnification(config)>>,
            <<TRUE, eula_termination(config)>>,
            <<Truthy(GetD(config, "has_export_restrictions", B(TRUE))), eula_export_compliance(config)>>,
            <<TRUE, eula_governing_law(config)>>,
            <<TRUE, eula_general_provisions(config)>>,
            <<TRUE, eula_contact_information(config)>> >>)

\* generate_eula(config, output_format), with the value datetime.now() returns
generate_eula(config, output_format, now) ==
    LET app_name == Or(Or(Get(config, "app_name"), Get(config, "website_name")), S("Application"))
        sections == eula_sections(config, now)
        content == JoinLines(sections, <<>>)
    IN  IF eula_liability_raises(config)
        THEN Raised("AttributeError: 'NoneType' object has no attribute 'upper'")
        ELSE IF output_format = "html"
        THEN convert_to_html(content, "EULA - " \o Str(app_name), FALSE)
        ELSE content

----------------------------------------------------------------------------
(* refund_generator.py *)

\* "n. ..." : a numbered line
Ol(n, spans) == [k |-> "ol", t |-> spans, n |-> n]

refund_generate_header(config, now) ==
    LET company_name == Or(Get(config, "company_name"), S("Company"))
        effective_date == Or(Get(config, "effective_date"), S(DateFmt(now)))
    IN  << H1("Refund Policy"), Blank,
           P(<<Bd(Str(company_name))>>), Blank,
           P(<<Bd("Effective Date:"), T(" " \o Str(effective_date))>>), Blank,
           P(<<Bd("Last Updated:"), T(" " \o DateFmt(now))>>) >>

refund_introduction(config) ==
    LET website_name == Or(Or(Get(config, "website_name"), Get(config, "app_name")), S("Website"))
        contact_email == Or(Get(config, "contact_email"), S(""))
    IN  << Blank, H2("Introduction"), Blank,
           Pt("Thank you for shopping at " \o Str(website_name)
              \o ". We appreciate your business and want to ensure your complete satisfaction."),
           Blank,
           Pt("This Refund Policy outlines the terms and conditions for refunds, returns, and exchanges."),
           Blank,
           Pt("If you have any questions about our refund policy, please contact us at "
              \o (IF Truthy(contact_email) THEN Str(contact_email) ELSE "[contact email]") \o ".") >>

refund_satisfaction_guarantee(config) ==
    LET guarantee_period == GetD(config, "guarantee_period", S("30 days"))
    IN  << Blank, H2("Satisfaction Guarantee"), Blank,
           Pt("We stand behind our products/services with a " \o Str(guarantee_period)
              \o " satisfaction guarantee."), Blank,
           Pt("Our satisfaction guarantee means:"), Blank,
           Lit("Full refund if you're not satisfied within " \o Str(guarantee_period)),
           Lit("No questions asked returns"),
           Lit("Quick processing of refunds") >>

refund_digital_services(config) ==
    LET refund_period == GetD(config, "refund_period", S("14 days"))
        offers_prorated == GetD(config, "offers_prorated_refunds", B(FALSE))
    IN  JoinLines(
          << << Blank, H2("Refund Policy for Digital Products/Services"), Blank,
                H3("Refund Eligibility"), Blank,
                P(<<T("You may request a refund within "), Bd(Str(refund_period)),
                    T(" of your purchase if:")>>), Blank,
                Lit("The service/product does not work as described"),
                Lit("The product was purchased by mistake (limited circumstances)"), Blank,
                H3("Non-Refundable Items"), Blank,
                Pt("The following are generally NOT eligible for refunds:"), Blank,
                Lit("Services that have been fully rendered or consumed"),
                Lit("Products where you have violated our terms of service") >> >>
          \o Included(<<
               <<Truthy(offers_prorated),
                 << Blank, H3("Pro-Rated Refunds"), Blank,
                    Pt("For subscription services cancelled mid-cycle:"), Blank,
                    Lit("We offer pro-rated refunds based on unused time"),
                    Lit("Pro-rated refunds are processed within 5-10 business days") >> >> >>),
          <<>>)

refund_physical_products(config) ==
    LET return_period == GetD(config, "return_period", S("30 days"))
        requires_receipt == GetD(config, "requires_receipt", B(TRUE))
        requires_original_packaging == GetD(config, "requires_original_packaging", B(TRUE))
        offers_exchanges == GetD(config, "offers_exchanges", B(TRUE))
        restocking_fee == Get(config, "restocking_fee")
        who_pays_return_shipping == GetD(config, "return_shipping", S("customer"))
    IN  JoinLines(
          << << Blank, H2("Return Policy for Physical Products"), Blank,
                H3("Return Window"), Blank,
                P(<<T("You have "), Bd(Str(return_period)),
                    T(" from the date of delivery to return eligible items for a refund or exchange.")>>),
                Blank,
                H3("Return Conditions"), Blank,
                Pt("To be eligible for a return, items must:"), Blank,
                Lit("Be unused and in the same condition that you received them"),
                Lit("Be in the original packaging"
                    \o (IF Truthy(requires_original_packaging) THEN " (required)" ELSE " (preferred)")),
                Lit(IF Truthy(requires_receipt) THEN "Include the receipt or proof of purchase"
                    ELSE "Have proof of purchase available upon request"),
                Lit("Not be damaged due to misuse or negligence"), Blank,
                H3("Non-Returnable Items"), Blank,
                Pt("The following items cannot be returned:"), Blank,
                Lit("Perishable goods (food, flowers, etc.)"),
                Lit("Items marked as \"Final Sale\" or \"Non-Returnable\"") >> >>
          \o Included(<<
               <<Truthy(offers_exchanges),
                 << Blank, H3("Exchanges"), Blank,
                    Pt("We are happy to exchange items for a different size, color, or product of equal value. To request an exchange:"),
                    Blank,
                    Ol(1, <<T("Contact our customer service team")>>),
                    Ol(2, <<T("Provide your order number and the item you wish to exchange")>>),
                    Ol(3, <<T("Specify the replacement item you want")>>),
                    Ol(4, <<T("Ship the original item back to us")>>),
                    Ol(5, <<T("We will ship the replacement once we receive the return")>>) >> >>,
               <<Truthy(restocking_fee),
                 << Blank, H3("Restocking Fee"), Blank,
                    P(<<T("A restocking fee of "), Bd(Str(restocking_fee)), T(" may apply to:")>>),
                    Blank,
                    Lit("Items returned without original packaging"),
                    Lit("Items returned after the standard return window (if accepted)") >> >>,
               <<TRUE,
                 << Blank, H3("Return Shipping"), Blank,
                    IF who_pays_return_shipping = S("company")
                    THEN P(<<Bd("We provide free return shipping"),
                             T(" for defective or incorrectly shipped items.")>>)
                    ELSE Blank,
                    IF who_pays_return_shipping = S("customer")
                    THEN P(<<Bd("Customers are responsible for return shipping costs"),
                             T(" for standard returns.")>>)
                    ELSE Blank,
                    IF who_pays_return_shipping = S("prepaid")
                    THEN P(<<Bd("We provide prepaid return labels"), T(" for all returns.")>>)
                    ELSE Blank,
                    Blank,
                    Pt("Important shipping notes:"), Blank,
                    Lit("Use a trackable shipping service"),
                    Lit("We are not responsible for items lost in return transit") >> >> >>),
          <<>>)

refund_subscription_refunds(config) ==
    LET contact_email == Or(Get(config, "contact_email"), S(""))
        subscription_refund_policy == GetD(config, "subscription_refund_policy", S("prorated"))
    IN  << Blank, H2("Subscription Refunds"), Blank,
           H3("Cancellation Policy"), Blank,
           Pt("You may cancel your subscription at any time through:"), Blank,
           Lit("Your account dashboard"),
           Lit("Contacting customer support"),
           Lit("Email request to "
               \o (IF Truthy(contact_email) THEN Str(contact_email) ELSE "our support team")),
           Blank,
           H3("Refund Options"), Blank,
           IF subscription_refund_policy = S("full")
           THEN P(<<Bd("Full Refund:"), T(" Cancel within the first billing period for a full refund.")>>)
           ELSE Blank,
           IF subscription_refund_policy = S("prorated")
           THEN P(<<Bd("Pro-Rated Refund:"),
                    T(" Receive a refund for the unused portion of your subscription.")>>)
           ELSE Blank,
           IF subscription_refund_policy = S("none")
           THEN P(<<Bd("No Refund:"),
                    T(" Subscription fees are non-refundable, but you retain access until the end of your billing period.")>>)
           ELSE Blank,
           Blank,
           H3("Free Trial Conversions"), Blank,
           Pt("If you signed up for a free trial:"), Blank,
           Lit("Cancel before the trial ends to avoid charges"),
           Lit("Set a reminder before your trial expires") >>

refund_how_to_request(config) ==
    LET contact_email == Or(Get(config, "contact_email"), S(""))
    IN  << Blank, H2("How to Request a Refund"), Blank,
           H3("Step-by-Step Process"), Blank,
           Ol(1, <<Bd("Contact Us")>>),
           Lit("Email: " \o (IF Truthy(contact_email) THEN Str(contact_email) ELSE "[support email]")),
           Lit("Include your order number and reason for refund"), Blank,
           Ol(2, <<Bd("Provide Required Information")>>),
           Lit("Order number or transaction ID"),
           Lit("Photos of damaged items (if applicable)"), Blank,
           Ol(3, <<Bd("Wait for Confirmation")>>),
           Lit("We will review your request within 2-3 business days"), Blank,
           Ol(4, <<Bd("Return Items (if applicable)")>>),
           Lit("Ship items to the provided address"), Blank,
           Ol(5, <<Bd("Receive Your Refund")>>),
           Lit("Refunds are processed after we receive and inspect returns"),
           Lit("Allow 5-10 business days for the refund to appear") >>

refund_processing(config) ==
    LET refund_processing_time == GetD(config, "refund_processing_time", S("5-10 business days"))
    IN  << Blank, H2("Refund Processing"), Blank,
           H3("Processing Time"), Blank,
           Pt("Once your refund is approved, please allow:"), Blank,
           Li(<<Bd("Credit/Debit Cards:"), T(" " \o Str(refund_processing_time))>>),
           Li(<<Bd("PayPal:"), T(" 3-5 business days")>>),
           Li(<<Bd("Store Credit:"), T(" Immediate")>>), Blank,
           H3("Refund Method"), Blank,
           Pt("Refunds will be issued to the original payment method used for the purchase unless:"),
           Blank,
           Lit("The original payment method is no longer valid"),
           Lit("Local regulations require a different method"), Blank,
           H3("Partial Refunds"), Blank,
           Pt("We may issue partial refunds in cases where:"), Blank,
           Lit("Items are returned after the return window (at our discretion)"),
           Lit("Restocking fees apply") >>

refund_late_or_missing(config) ==
    LET contact_email == Or(Get(config, "contact_email"), S(""))
    IN  << Blank, H2("Late or Missing Refunds"), Blank,
           Pt("If you haven't received your refund after the expected timeframe:"), Blank,
           Ol(1, <<Bd("Check Your Account")>>),
           Lit("Review your bank or credit card statement"), Blank,
           Ol(2, <<Bd("Contact Your Bank")>>),
           Lit("There may be processing delays on their end"), Blank,
           Ol(3, <<Bd("Contact Your Credit Card Company")>>),
           Lit("Processing times vary between providers"), Blank,
           Ol(4, <<Bd("Contact Us")>>),
           Lit("Email us at "
               \o (IF Truthy(contact_email) THEN Str(contact_email) ELSE "[support email]")
               \o " with your order details"),
           Lit("We will investigate and resolve the issue") >>

refund_sale_items(config) ==
    LET sale_items_policy == GetD(config, "sale_items_refundable", B(TRUE))
    IN  << Blank, H2("Sale Items and Promotions"), Blank,
           H3("Sale Items"), Blank,
           Pt(IF Truthy(sale_items_policy)
              THEN "Sale items are eligible for refunds under the same terms as regular-priced items."
              ELSE "Sale items and clearance items are FINAL SALE and cannot be returned or refunded unless defective."),
           Blank,
           H3("Promotional Discounts"), Blank,
           Lit("Items purchased with promo codes follow standard refund policies"),
           Lit("Free promotional items must be returned with the qualifying purchase"), Blank,
           H3("Bundle Deals"), Blank,
           Lit("Returning part of a bundle may affect the refund amount"),
           Lit("We recommend returning the entire bundle for a full refund") >>

refund_damaged_items(config) ==
    << Blank, H2("Damaged or Defective Items"), Blank,
       H3("Damaged in Shipping"), Blank,
       Pt("If your item arrived damaged:"), Blank,
       Ol(1, <<T("Take photos of the packaging and damage")>>),
       Ol(2, <<T("Contact us within 48 hours of delivery")>>),
       Ol(3, <<T("Do not discard the packaging or items")>>),
       Ol(4, <<T("We will arrange a replacement or full refund")>>), Blank,
       H3("Defective Products"), Blank,
       Pt("If your product is defective:"), Blank,
       Ol(1, <<T("Contact us with a description of the defect")>>),
       Ol(4, <<T("We will provide a replacement, repair, or refund")>>), Blank,
       H3("Wrong Item Received"), Blank,
       Pt("If you received the wrong item:"), Blank,
       Ol(1, <<T("Contact us immediately")>>),
       Ol(4, <<T("Return shipping is free for our errors")>>) >>

refund_chargebacks(config) ==
    << Blank, H2("Chargebacks and Disputes"), Blank,
       H3("Before Filing a Chargeback"), Blank,
       Pt("Please contact us before disputing a charge with your bank or credit card company."), Blank,
       H3("Our Commitment"), Blank,
       Lit("We respond to all refund requests within 48 hours"),
       Lit("We honor all valid refund requests within our policy"), Blank,
       H3("Chargeback Consequences"), Blank,
       Pt("Filing a chargeback without first contacting us may result in:"), Blank,
       Lit("Suspension of your account"),
       Lit("Additional fees if the chargeback is found to be unwarranted") >>

refund_legal_rights(config) ==
    << Blank, H2("Your Legal Rights"), Blank,
       H3("Consumer Protection Laws"), Blank,
       Pt("This refund policy does not affect your statutory rights under consumer protection laws."),
       Blank,
       Li(<<Bd("European Union:"), T(" 14-day cooling-off period for online purchases")>>),
       Li(<<Bd("United States:"), T(" State-specific consumer protection laws")>>), Blank,
       H3("Right of Withdrawal (EU/UK)"), Blank,
       Pt("If you are in the European Union or United Kingdom, you have the right to withdraw from your purchase within 14 days. This right does not apply to:"),
       Blank,
       Lit("Digital content after download has begun"),
       Lit("Sealed goods unsealed after delivery") >>

refund_exceptions(config) ==
    << Blank, H2("Exceptions and Special Circumstances"), Blank,
       H3("Force Majeure"), Blank,
       Pt("In cases of natural disasters, pandemics, or other events beyond our control:"), Blank,
       Lit("Return windows may be extended"),
       Lit("We will communicate any policy changes"), Blank,
       H3("Goodwill Exceptions"), Blank,
       Pt("At our sole discretion, we may make exceptions to this policy in special circumstances."),
       Blank,
       H3("Fraud Prevention"), Blank,
       Pt("We reserve the right to refuse refunds if we detect:"), Blank,
       Lit("Patterns of abuse (frequent returns, \"wardrobing\")"),
       Lit("Violation of our terms of service") >>

refund_changes(config) ==
    << Blank, H2("Changes to This Policy"), Blank,
       Pt("We reserve the right to modify this refund policy at any time. Changes will be effective immediately upon posting to our website."),
       Blank,
       Lit("The policy in effect at the time of your purchase applies to that transaction"),
       Lit("Continued use of our services constitutes acceptance of the updated policy") >>

refund_contact(config) ==
    LET company_name == Or(Get(config, "company_name"), S("Company"))
        website_url == Or(Get(config, "website_url"), S("https://example.com"))
        company_address == Or(Get(config, "company_address"), S(""))
        contact_email == Or(Get(config, "contact_email"), S(""))
    IN  << Blank, H2("Contact Us"), Blank,
           Pt("If you have any questions about our Refund Policy, please contact us:"), Blank,
           P(<<Bd(Str(company_name))>>),
           PtOrBlank(IF Truthy(company_address) THEN "Address: " \o Str(company_address) ELSE ""),
           PtOrBlank(IF Truthy(contact_email) THEN "Email: " \o Str(contact_email) ELSE ""),
           PtOrBlank(IF Truthy(website_url) THEN "Website: " \o Str(website_url) ELSE ""),
           Blank,
           Pt("Our customer service team is available:"), Blank,
           Lit("Monday - Friday: 9:00 AM - 5:00 PM"),
           Lit("Response time: Within 24-48 hours"), Blank,
           Pt("We value your business and will do our best to ensure your satisfaction.") >>

\* the list `sections` of generate_refund_policy when it is joined
refund_sections(config, now) ==
    LET company_name == Or(Get(config, "company_name"), S("Company"))
        business_type == GetD(config, "business_type", S("services"))
    IN  Included(<<
            <<TRUE, refund_generate_header(config, now)>>,
            <<TRUE, refund_introduction(config)>>,
            <<Truthy(GetD(config, "has_satisfaction_guarantee", B(FALSE))),
              refund_satisfaction_guarantee(config)>>,
            <<business_type \in {S("digital"), S("services"), S("subscription")},
              refund_digital_services(config)>>,
            <<business_type = S("products"), refund_physical_products(config)>>,
            <<business_type = S("subscription") \/ Truthy(GetD(config, "has_subscriptions", B(FALSE))),
              refund_subscription_refunds(config)>>,
            <<TRUE, refund_how_to_request(config)>>,
            <<TRUE, refund_processing(config)>>,
            <<TRUE, refund_late_or_missing(config)>>,
            <<TRUE, refund_sale_items(config)>>,
            <<TRUE, refund_damaged_items(config)>>,
            <<TRUE, refund_chargebacks(config)>>,
            <<TRUE, refund_legal_rights(config)>>,
            <<TRUE, refund_exceptions(config)>>,
            <<TRUE, refund_changes(config)>>,
            <<TRUE, refund_contact(config)>> >>)

\* a faulty generator that renders HTML whatever the format
generate_refund_policy_always_html(config, output_format, now) ==
    convert_to_html(JoinLines(refund_sections(config, now), <<>>), "Refund Policy", TRUE)

\* generate_refund_policy(config, output_format), with the value datetime.now() returns
generate_refund_policy(config, output_format, now) ==
    LET company_name == Or(Get(config, "company_name"), S("Company"))
        business_type == GetD(config, "business_type", S("services"))
        sections == refund_sections(config, now)
        content == JoinLines(sections, <<>>)
    IN  IF output_format = "html"
        THEN convert_to_html(content, "Refund Policy - " \o Str(company_name), TRUE)
        ELSE content

----------------------------------------------------------------------------
(* main.py: the tools.  Each tool is one action: it reads the five module- *)
(* level dictionaries, updates them, writes its files and returns a text.  *)

MaxCalls == 2       \* tool calls explored from the initial state
MaxClock == 2       \* clock values explored

\* the argument dictionary {} of a call without arguments
EmptyArgs == [k \in {} |-> NONE]

\* the characters of the names the model supplies, a Python str as a sequence
Chars(s) ==
    CASE s = "Acme Inc" ->
            <<"A", "c", "m", "e", " ", "I", "n", "c">>
      [] s = "Beta LLC" ->
            <<"B", "e", "t", "a", " ", "L", "L", "C">>
      [] s = "Acme Corp!!" ->
            <<"A", "c", "m", "e", " ", "C", "o", "r", "p", "!", "!">>
      [] s = "International Widgets Holdings" ->
            <<"I", "n", "t", "e", "r", "n", "a", "t", "i", "o", "n", "a", "l", " ", "W", "i", "d", "g", "e", "t", "s", " ", "H", "o", "l", "d", "i", "n", "g", "s">>
      [] s = "policy" ->
            <<"p", "o", "l", "i", "c", "y">>
      [] s = "tos" ->
            <<"t", "o", "s">>
      [] s = "company" ->
            <<"c", "o", "m", "p", "a", "n", "y">>
      [] s = "cookie" ->
            <<"c", "o", "o", "k", "i", "e">>
      [] s = "eula" ->
            <<"e", "u", "l", "a">>
      [] s = "refund" ->
            <<"r", "e", "f", "u", "n", "d">>
      [] s = "document" ->
            <<"d", "o", "c", "u", "m", "e", "n", "t">>
      [] OTHER -> <<s>>

\* "".join(chars)
RECURSIVE Cat(_)
Cat(chars) == IF chars = <<>> THEN "" ELSE chars[1] \o Cat(Tail(chars))

\* c.lower(): the letters A..Z change, every other character stays
LowerChar(c) ==
    CASE c = "A" -> "a"
      [] c = "B" -> "b"
      [] c = "C" -> "c"
      [] c = "D" -> "d"
      [] c = "E" -> "e"
      [] c = "F" -> "f"
      [] c = "G" -> "g"
      [] c = "H" -> "h"
      [] c = "I" -> "i"
      [] c = "J" -> "j"
      [] c = "K" -> "k"
      [] c = "L" -> "l"
      [] c = "M" -> "m"
      [] c = "N" -> "n"
      [] c = "O" -> "o"
      [] c = "P" -> "p"
      [] c = "Q" -> "q"
      [] c = "R" -> "r"
      [] c = "S" -> "s"
      [] c = "T" -> "t"
      [] c = "U" -> "u"
      [] c = "V" -> "v"
      [] c = "W" -> "w"
      [] c = "X" -> "x"
      [] c = "Y" -> "y"
      [] c = "Z" -> "z"
      [] OTHER -> c

\* chars.lower().replace(" ", "_")
LowerUnderscoreChars(chars) ==
    [i \in 1..Len(chars) |-> IF chars[i] = " " THEN "_" ELSE LowerChar(chars[i])]

\* s.lower().replace(" ", "_")
LowerUnderscore(s) == Cat(LowerUnderscoreChars(Chars(s)))

\* [p.strip() for p in s.split(",")] on the lists the model supplies
SplitStrip(s) ==
    CASE s = "Stripe, PayPal" -> <<"Stripe", "PayPal">>
      [] s = "analytics providers, advertisers" -> <<"analytics providers", "advertisers">>
      [] s = "comments, reviews" -> <<"comments", "reviews">>
      [] s = "Zendesk, Drift" -> <<"Zendesk", "Drift">>
      [] OTHER -> <<s>>

\* a faulty merge that is config.update(args)
UpdateExisting_adding(config, args) ==
    [k \in (DOMAIN config) \cup (DOMAIN args) |->
        IF k \in DOMAIN args THEN args[k] ELSE config[k]]

\* for key, value in args.items(): if key in config: config[key] = value
UpdateExisting(config, args) ==
    [k \in DOMAIN config |-> IF k \in DOMAIN args THEN args[k] ELSE config[k]]

\* a faulty merge that also overwrites what the target already holds
MergeBusinessInfo_overwriting(primary, target, keys) ==
    LET filled == {keys[i] : i \in {j \in 1..Len(keys) : Truthy(Get(primary, keys[j]))}}
    IN  [k \in (DOMAIN target) \cup filled |-> IF k \in filled THEN primary[k] ELSE target[k]]

\* for key in keys: if policy_config.get(key) and not target.get(key):
\*     target[key] = policy_config[key]
MergeBusinessInfo(primary, target, keys) ==
    LET filled == {keys[i] : i \in {j \in 1..Len(keys) :
                        Truthy(Get(primary, keys[j])) /\ ~Truthy(Get(target, keys[j]))}}
    IN  [k \in (DOMAIN target) \cup filled |-> IF k \in filled THEN primary[k] ELSE target[k]]

\* the merge loops of generate_terms_of_service and generate_both_documents
merge_into_tos(primary, target) ==
    MergeBusinessInfo(primary, target,
        <<"platform_type", "website_url", "website_name", "app_name",
          "company_name", "company_address", "country", "contact_email">>)

\* a faulty merge loop that leaves contact_email out
merge_into_cookie_without_email(primary, target) ==
    MergeBusinessInfo(primary, target,
        <<"company_name", "website_url", "website_name", "company_address">>)

\* the merge loop of generate_cookie_policy
merge_into_cookie(primary, target) ==
    MergeBusinessInfo(primary, target,
        <<"company_name", "website_url", "website_name", "company_address", "contact_email">>)

\* the merge loop of generate_eula
merge_into_eula(primary, target) ==
    MergeBusinessInfo(primary, target,
        <<"company_name", "website_url", "website_name", "app_name", "company_address",
          "contact_email">>)

\* the merge loop of generate_refund_policy
merge_into_refund(primary, target) ==
    MergeBusinessInfo(primary, target,
        <<"company_name", "website_url", "website_name", "company_address", "contact_email">>)

\* the merge loop of generate_all_documents: `if key in target and not target.get(key)`
merge_into_present(primary, target) ==
    MergeBusinessInfo(primary, target,
        SelectSeq(<<"platform_type", "website_url", "website_name", "app_name",
                    "company_name", "company_address", "country", "contact_email">>,
                  LAMBDA key : key \in DOMAIN target))

\* output_dir / filename, and the extension chosen from output_format
File(name, content) == [name |-> name, content |-> content]
Ext(output_format) == IF output_format = "html" THEN "html" ELSE "md"

\* the index of the first file whose text is an exception (Len + 1: none raised)
FirstRaised(files) ==
    LET bad == {i \in 1..Len(files) : IsRaised(files[i].content)}
    IN  IF bad = {} THEN Len(files) + 1 ELSE CHOOSE i \in bad : \A j \in bad : i <= j

\* path.write_text(text) for each file in turn, up to the generator call that raises
WriteText(files) == {files[i] : i \in 1..(FirstRaised(files) - 1)}

\* what the tool returns: its text, or the exception that escaped it
Returned(files, text) ==
    IF FirstRaised(files) <= Len(files) THEN files[FirstRaised(files)].content ELSE text

\* the bookkeeping shared by every tool call
Handled(op, args, text, files) ==
    /\ ncalls' = ncalls + 1
    /\ call' = [op |-> op, args |-> args]
    /\ result' = text
    /\ written' = files
    /\ UNCHANGED <<sessions, clock, g_doc, g_cfg, g_edited, r_text>>

\* a faulty tool that stores empty values too (`if key in args:`)
set_business_info_storing_empty(args) ==
    LET given == {key \in {"platform_type", "business_type", "company_name", "country",
                           "website_url", "website_name", "app_name", "company_address",
                           "contact_email"} : key \in DOMAIN args}
        saved(config) == [k \in DOMAIN config |-> IF k \in given THEN args[k] ELSE config[k]]
    IN  /\ ncalls < MaxCalls
        /\ policy_config' = saved(policy_config)
        /\ tos_config' = saved(tos_config)
        /\ cookie_config' = saved(cookie_config)
        /\ eula_config' = saved(eula_config)
        /\ refund_config' = saved(refund_config)
        /\ Handled("set_business_info", args, <<Pt("Business information saved")>>, {})

\* a faulty tool that forgets the EULA record
set_business_info_without_eula(args) ==
    LET given == {key \in {"platform_type", "business_type", "company_name", "country",
                           "website_url", "website_name", "app_name", "company_address",
                           "contact_email"} : key \in DOMAIN args /\ Truthy(args[key])}
        saved(config) == [k \in DOMAIN config |-> IF k \in given THEN args[k] ELSE config[k]]
    IN  /\ ncalls < MaxCalls
        /\ policy_config' = [k \in (DOMAIN policy_config) \cup given |->
                                IF k \in given THEN args[k] ELSE policy_config[k]]
        /\ tos_config' = saved(tos_config)
        /\ cookie_config' = saved(cookie_config)
        /\ eula_config' = eula_config
        /\ refund_config' = saved(refund_config)
        /\ Handled("set_business_info", args,
                   <<Pt("Business information saved: "
                        \o Str(GetD(args, "company_name", S("N/A"))) \o " ("
                        \o Str(GetD(args, "platform_type", S("N/A"))) \o ")")>>, {})

set_business_info(args) ==
    LET given == {key \in {"platform_type", "business_type", "company_name", "country",
                           "website_url", "website_name", "app_name", "company_address",
                           "contact_email"} : key \in DOMAIN args /\ Truthy(args[key])}
        \* if key in config: config[key] = args[key]
        saved(config) == [k \in DOMAIN config |-> IF k \in given THEN args[k] ELSE config[k]]
    IN  /\ ncalls < MaxCalls
        /\ policy_config' = [k \in (DOMAIN policy_config) \cup given |->
                                IF k \in given THEN args[k] ELSE policy_config[k]]
        /\ tos_config' = saved(tos_config)
        /\ cookie_config' = saved(cookie_config)
        /\ eula_config' = saved(eula_config)
        /\ refund_config' = saved(refund_config)
        /\ Handled("set_business_info", args,
                   <<Pt("Business information saved: "
                        \o Str(GetD(args, "company_name", S("N/A"))) \o " ("
                        \o Str(GetD(args, "platform_type", S("N/A"))) \o ")")>>, {})

get_current_config ==
    /\ ncalls < MaxCalls
    /\ Handled("get_current_config", EmptyArgs,
               << Pt("Privacy Policy Config:"), Ln("json", policy_config), Blank,
                  Pt("ToS Config:"), Ln("json", tos_config), Blank,
                  Pt("Cookie Policy Config:"), Ln("json", cookie_config), Blank,
                  Pt("EULA Config:"), Ln("json", eula_config), Blank,
                  Pt("Refund Policy Config:"), Ln("json", refund_config) >>, {})
    /\ UNCHANGED main_vars

reset_config ==
    LET reset(config, true_flags, values) ==
            [key \in DOMAIN config |->
                IF IsBool(config[key]) THEN B(key \in true_flags)
                ELSE IF IsList(config[key]) THEN L(<<>>)
                ELSE IF key \in DOMAIN values THEN values[key]
                ELSE NONE]
    IN  /\ ncalls < MaxCalls
        /\ policy_config' = reset(policy_config, {}, EmptyArgs)
        /\ tos_config' = reset(tos_config, {},
                [minimum_age |-> I(18), disclaims_warranties |-> B(TRUE)])
        /\ cookie_config' = reset(cookie_config,
                {"uses_essential_cookies", "has_cookie_consent"}, EmptyArgs)
        /\ eula_config' = reset(eula_config,
                {"no_reverse_engineering", "no_modification", "no_redistribution",
                 "requires_account", "collects_data", "uses_third_party",
                 "has_export_restrictions", "is_subscription", "auto_renewal"},
                [license_type |-> S("subscription"), billing_cycle |-> S("monthly"),
                 trial_period |-> S("14 days"),
                 liability_cap |->
                    S("amount paid for the Software in the 12 months preceding the claim"),
                 jurisdiction |-> S("the State of Delaware"),
                 dispute_resolution |-> S("binding arbitration")])
        /\ refund_config' = reset(refund_config,
                {"requires_receipt", "requires_original_packaging", "offers_exchanges",
                 "offers_prorated_refunds", "sale_items_refundable"},
                [business_type |-> S("services"), guarantee_period |-> S("30 days"),
                 refund_period |-> S("14 days"),
                 refund_processing_time |-> S("5-10 business days"),
                 return_period |-> S("30 days"), return_shipping |-> S("customer"),
                 subscription_refund_policy |-> S("prorated")])
        /\ Handled("reset_config", EmptyArgs,
                   <<Pt("All configurations reset. Ready to start new documents.")>>, {})

\* args.get("output_format", "markdown")
OutputFormat(args) == Str(GetD(args, "output_format", S("markdown")))

\* (config.get("company_name") or default).lower().replace(" ", "_")
CompanySlug(config, default) ==
    LowerUnderscore(Str(Or(Get(config, "company_name"), S(default))))

\* f"{company_slug}_{label}_{timestamp}.{ext}", a file of the directory generated_policies
Filename(company_slug, label, now, output_format) ==
    company_slug \o "_" \o label \o "_" \o TimestampFmt(now) \o "." \o Ext(output_format)

\* One tool call: `texts` holds the text each generator call of the tool returned, in
\* call order; `files` pairs them with the file names they are written to.
generate_privacy_policy(args) ==
    /\ ncalls < MaxCalls
    /\ \E texts \in {<<generate_policy(policy_config, OutputFormat(args), clock)>>} :
          LET files == <<File(Filename(CompanySlug(policy_config, "policy"),
                                       "privacy_policy", clock, OutputFormat(args)),
                              texts[1])>>
          IN  /\ Handled("generate_privacy_policy", args,
                         Returned(files, <<Pt("Privacy policy generated and saved to: "
                                              \o files[1].name), Blank>> \o texts[1]),
                         WriteText(files))
              /\ UNCHANGED main_vars

generate_terms_of_service(args) ==
    /\ ncalls < MaxCalls
    /\ \E merged \in {merge_into_tos(policy_config, tos_config)} :
       \E texts \in {<<generate_tos(merged, OutputFormat(args), clock)>>} :
          LET files == <<File(Filename(CompanySlug(merged, "tos"), "terms_of_service",
                                       clock, OutputFormat(args)), texts[1])>>
          IN  /\ tos_config' = merged
              /\ Handled("generate_terms_of_service", args,
                         Returned(files, <<Pt("Terms of Service generated and saved to: "
                                              \o files[1].name), Blank>> \o texts[1]),
                         WriteText(files))
              /\ UNCHANGED <<policy_config, cookie_config, eula_config, refund_config>>

generate_both_documents(args) ==
    /\ ncalls < MaxCalls
    /\ \E merged \in {merge_into_tos(policy_config, tos_config)} :
       \E texts \in {<< generate_policy(policy_config, OutputFormat(args), clock),
                        generate_tos(merged, OutputFormat(args), clock) >>} :
          LET company_slug == CompanySlug(policy_config, "company")
              name(label) == Filename(company_slug, label, clock, OutputFormat(args))
              files == << File(name("privacy_policy"), texts[1]),
                          File(name("terms_of_service"), texts[2]) >>
          IN  /\ tos_config' = merged
              /\ Handled("generate_both_documents", args,
                         Returned(files,
                                  << Pt("Both documents generated!"), Blank,
                                     Pt("Privacy Policy saved to: " \o files[1].name),
                                     Pt("Terms of Service saved to: " \o files[2].name) >>),
                         WriteText(files))
              /\ UNCHANGED <<policy_config, cookie_config, eula_config, refund_config>>

\* a faulty tool that assembles the text before it merges the business details
generate_cookie_policy_unmerged(args) ==
    /\ ncalls < MaxCalls
    /\ \E merged \in {merge_into_cookie(policy_config, cookie_config)} :
       \E texts \in {<<generate_cookie_policy(cookie_config, OutputFormat(args), clock)>>} :
          LET files == <<File(Filename(CompanySlug(merged, "cookie"), "cookie_policy",
                                       clock, OutputFormat(args)), texts[1])>>
          IN  /\ cookie_config' = merged
              /\ Handled("generate_cookie_policy", args,
                         Returned(files, <<Pt("Cookie Policy generated and saved to: "
                                              \o files[1].name), Blank>> \o texts[1]),
                         WriteText(files))
              /\ UNCHANGED <<policy_config, tos_config, eula_config, refund_config>>

generate_cookie_policy_tool(args) ==
    /\ ncalls < MaxCalls
    /\ \E merged \in {merge_into_cookie(policy_config, cookie_config)} :
       \E texts \in {<<generate_cookie_policy(merged, OutputFormat(args), clock)>>} :
          LET files == <<File(Filename(CompanySlug(merged, "cookie"), "cookie_policy",
                                       clock, OutputFormat(args)), texts[1])>>
          IN  /\ cookie_config' = merged
              /\ Handled("generate_cookie_policy", args,
                         Returned(files, <<Pt("Cookie Policy generated and saved to: "
                                              \o files[1].name), Blank>> \o texts[1]),
                         WriteText(files))
              /\ UNCHANGED <<policy_config, tos_config, eula_config, refund_config>>

generate_eula_tool(args) ==
    /\ ncalls < MaxCalls
    /\ \E merged \in {merge_into_eula(policy_config, eula_config)} :
       \E texts \in {<<generate_eula(merged, OutputFormat(args), clock)>>} :
          LET files == <<File(Filename(CompanySlug(merged, "eula"), "eula",
                                       clock, OutputFormat(args)), texts[1])>>
          IN  /\ eula_config' = merged
              /\ Handled("generate_eula", args,
                         Returned(files, <<Pt("EULA generated and saved to: "
                                              \o files[1].name), Blank>> \o texts[1]),
                         WriteText(files))
              /\ UNCHANGED <<policy_config, tos_config, cookie_config, refund_config>>

generate_refund_policy_tool(args) ==
    /\ ncalls < MaxCalls
    /\ \E merged \in {merge_into_refund(policy_config, refund_config)} :
       \E texts \in {<<generate_refund_policy(merged, OutputFormat(args), clock)>>} :
          LET files == <<File(Filename(CompanySlug(merged, "refund"), "refund_policy",
                                       clock, OutputFormat(args)), texts[1])>>
          IN  /\ refund_config' = merged
              /\ Handled("generate_refund_policy", args,
                         Returned(files, <<Pt("Refund Policy generated and saved to: "
                                              \o files[1].name), Blank>> \o texts[1]),
                         WriteText(files))
              /\ UNCHANGED <<policy_config, tos_config, cookie_config, eula_config>>

generate_all_documents(args) ==
    /\ ncalls < MaxCalls
    /\ \E merged \in {<< merge_into_present(policy_config, tos_config),
                         merge_into_present(policy_config, cookie_config),
                         merge_into_present(policy_config, eula_config),
                         merge_into_present(policy_config, refund_config) >>} :
       \E texts \in {<< generate_policy(policy_config, OutputFormat(args), clock),
                        generate_tos(merged[1], OutputFormat(args), clock),
                        generate_cookie_policy(merged[2], OutputFormat(args), clock),
                        generate_eula(merged[3], OutputFormat(args), clock),
                        generate_refund_policy(merged[4], OutputFormat(args), clock) >>} :
          LET company_slug == CompanySlug(policy_config, "company")
              name(label) == Filename(company_slug, label, clock, OutputFormat(args))
              files == << File(name("privacy_policy"), texts[1]),
                          File(name("terms_of_service"), texts[2]),
                          File(name("cookie_policy"), texts[3]),
                          File(name("eula"), texts[4]),
                          File(name("refund_policy"), texts[5]) >>
          IN  /\ tos_config' = merged[1]
              /\ cookie_config' = merged[2]
              /\ eula_config' = merged[3]
              /\ refund_config' = merged[4]
              /\ Handled("generate_all_documents", args,
                         Returned(files,
                                  << Pt("All five documents generated!"), Blank,
                                     Pt("Privacy Policy: " \o files[1].name),
                                     Pt("Terms of Service: " \o files[2].name),
                                     Pt("Cookie Policy: " \o files[3].name),
                                     Pt("EULA: " \o files[4].name),
                                     Pt("Refund Policy: " \o files[5].name) >>),
                         WriteText(files))
              /\ UNCHANGED policy_config

\* the argument schema each set_* tool declares in its @tool decorator
ToolSchema(tool) ==
    CASE tool = "set_data_collection" ->
           <<<<"collects_name", "bool">>, <<"collects_email", "bool">>,
             <<"collects_phone", "bool">>, <<"collects_address", "bool">>,
             <<"collects_billing_address", "bool">>, <<"collects_payment_info", "bool">>,
             <<"collects_age", "bool">>, <<"collects_username", "bool">>,
             <<"collects_password", "bool">>>>
      [] tool = "set_tracking_technologies" ->
           <<<<"uses_cookies", "bool">>, <<"uses_web_beacons", "bool">>,
             <<"uses_local_storage", "bool">>, <<"uses_sessions", "bool">>,
             <<"uses_google_maps", "bool">>>>
      [] tool = "set_social_logins" ->
           <<<<"facebook", "bool">>, <<"google", "bool">>, <<"twitter", "bool">>,
             <<"github", "bool">>, <<"linkedin", "bool">>>>
      [] tool = "set_marketing_settings" ->
           <<<<"has_email_newsletter", "bool">>, <<"uses_analytics", "bool">>,
             <<"analytics_provider", "str">>, <<"displays_ads", "bool">>,
             <<"uses_facebook_pixel", "bool">>, <<"uses_retargeting", "bool">>>>
      [] tool = "set_app_permissions" ->
           <<<<"requests_geolocation", "bool">>, <<"requests_contacts", "bool">>,
             <<"requests_camera", "bool">>, <<"requests_photo_gallery", "bool">>,
             <<"requests_microphone", "bool">>, <<"requests_push_notifications", "bool">>>>
      [] tool = "set_payment_settings" ->
           <<<<"accepts_payments", "bool">>, <<"payment_type", "str">>,
             <<"payment_processors", "str">>>>
      [] tool = "set_compliance_options" ->
           <<<<"gdpr_compliant", "bool">>, <<"ccpa_compliant", "bool">>,
             <<"caloppa_compliant", "bool">>, <<"coppa_compliant", "bool">>,
             <<"allows_children_under_13", "bool">>>>
      [] tool = "set_data_sharing" ->
           <<<<"shares_with_third_parties", "bool">>, <<"third_party_categories", "str">>,
             <<"sells_data", "bool">>>>
      [] tool = "set_user_rights" ->
           <<<<"allows_data_access", "bool">>, <<"allows_data_deletion", "bool">>,
             <<"allows_data_portability", "bool">>, <<"allows_opt_out", "bool">>>>
      [] tool = "set_security_settings" ->
           <<<<"uses_encryption", "bool">>, <<"uses_ssl", "bool">>,
             <<"has_security_measures", "bool">>, <<"data_retention_period", "str">>>>
      [] tool = "set_tos_service_details" ->
           <<<<"service_description", "str">>, <<"minimum_age", "int">>,
             <<"requires_account", "bool">>>>
      [] tool = "set_tos_payment_options" ->
           <<<<"has_paid_services", "bool">>, <<"has_subscriptions", "bool">>,
             <<"has_free_trial", "bool">>, <<"offers_refunds", "bool">>,
             <<"refund_period", "str">>, <<"payment_processors", "str">>>>
      [] tool = "set_tos_user_content" ->
           <<<<"allows_user_content", "bool">>, <<"user_content_types", "str">>,
             <<"moderates_content", "bool">>>>
      [] tool = "set_tos_features" ->
           <<<<"has_third_party_links", "bool">>, <<"provides_api", "bool">>,
             <<"has_mobile_app", "bool">>>>
      [] tool = "set_tos_legal_options" ->
           <<<<"jurisdiction", "str">>, <<"governing_state", "str">>,
             <<"has_arbitration", "bool">>, <<"dispute_resolution", "str">>>>
      [] tool = "set_tos_liability" ->
           <<<<"liability_cap", "str">>, <<"disclaims_warranties", "bool">>>>
      [] tool = "set_cookie_types" ->
           <<<<"uses_essential_cookies", "bool">>, <<"uses_functional_cookies", "bool">>,
             <<"uses_performance_cookies", "bool">>, <<"uses_analytics", "bool">>,
             <<"uses_advertising_cookies", "bool">>, <<"uses_social_cookies", "bool">>>>
      [] tool = "set_cookie_analytics" ->
           <<<<"uses_google_analytics", "bool">>, <<"uses_hotjar", "bool">>,
             <<"uses_mixpanel", "bool">>, <<"analytics_provider", "str">>>>
      [] tool = "set_cookie_advertising" ->
           <<<<"uses_facebook_pixel", "bool">>, <<"uses_google_ads", "bool">>,
             <<"uses_linkedin_insight", "bool">>, <<"uses_twitter_pixel", "bool">>,
             <<"uses_tiktok_pixel", "bool">>>>
      [] tool = "set_cookie_social" ->
           <<<<"uses_facebook_cookies", "bool">>, <<"uses_twitter_cookies", "bool">>,
             <<"uses_linkedin_cookies", "bool">>, <<"uses_instagram_cookies", "bool">>,
             <<"uses_youtube_cookies", "bool">>, <<"uses_pinterest_cookies", "bool">>,
             <<"social_sharing_enabled", "bool">>>>
      [] tool = "set_cookie_consent" ->
           <<<<"has_cookie_consent", "bool">>, <<"honors_dnt", "bool">>,
             <<"gdpr_compliant", "bool">>, <<"allows_children", "bool">>>>
      [] tool = "set_cookie_third_party" ->
           <<<<"uses_hubspot", "bool">>, <<"uses_intercom", "bool">>,
             <<"third_party_cookies", "str">>>>
      [] tool = "set_eula_license_terms" ->
           <<<<"license_type", "str">>, <<"is_transferable", "bool">>,
             <<"is_subscription", "bool">>, <<"billing_cycle", "str">>,
             <<"auto_renewal", "bool">>, <<"has_free_trial", "bool">>,
             <<"trial_period", "str">>>>
      [] tool = "set_eula_restrictions" ->
           <<<<"no_reverse_engineering", "bool">>, <<"no_modification", "bool">>,
             <<"no_redistribution", "bool">>, <<"no_commercial_use", "bool">>>>
      [] tool = "set_eula_features" ->
           <<<<"requires_account", "bool">>, <<"collects_data", "bool">>,
             <<"uses_third_party", "bool">>, <<"has_export_restrictions", "bool">>>>
      [] tool = "set_eula_warranty" ->
           <<<<"has_warranty", "bool">>, <<"warranty_period", "str">>,
             <<"liability_cap", "str">>>>
      [] tool = "set_eula_legal" ->
           <<<<"jurisdiction", "str">>, <<"dispute_resolution", "str">>>>
      [] tool = "set_refund_general" ->
           <<<<"business_type", "str">>, <<"has_satisfaction_guarantee", "bool">>,
             <<"guarantee_period", "str">>, <<"refund_period", "str">>,
             <<"refund_processing_time", "str">>>>
      [] tool = "set_refund_physical_products" ->
           <<<<"return_period", "str">>, <<"requires_receipt", "bool">>,
             <<"requires_original_packaging", "bool">>, <<"offers_exchanges", "bool">>,
             <<"restocking_fee", "str">>, <<"return_shipping", "str">>>>
      [] tool = "set_refund_digital_subscription" ->
           <<<<"has_subscriptions", "bool">>, <<"subscription_refund_policy", "str">>,
             <<"offers_prorated_refunds", "bool">>>>
      [] tool = "set_refund_sale_items" ->
           <<<<"sale_items_refundable", "bool">>>>

\* a value of the declared type for an argument: two samples per key
SampleValue(key, type, other) ==
    IF type = "bool" THEN B(~other)
    ELSE IF type = "int" THEN I(IF other THEN 13 ELSE 21)
    ELSE S(CASE key = "business_type" -> IF other THEN "digital" ELSE "products"
             [] key = "payment_processors" -> IF other THEN "Stripe" ELSE "Stripe, PayPal"
             [] key = "third_party_categories" ->
                    IF other THEN "advertisers" ELSE "analytics providers, advertisers"
             [] key = "user_content_types" -> IF other THEN "reviews" ELSE "comments, reviews"
             [] key = "third_party_cookies" -> IF other THEN "Zendesk" ELSE "Zendesk, Drift"
             [] key = "license_type" -> IF other THEN "perpetual" ELSE "subscription"
             [] key = "return_shipping" -> IF other THEN "free" ELSE "customer"
             [] key = "liability_cap" -> IF other THEN "" ELSE "fees paid"
             [] OTHER -> IF other THEN "7 days" ELSE "30 days")

\* the argument dictionaries a tool is called with: every declared key, and the first
\* declared key alone (with the other sample)
ToolArgs(tool) ==
    LET schema == ToolSchema(tool)
    IN  { [key \in {schema[i][1] : i \in 1..Len(schema)} |->
              LET i == CHOOSE j \in 1..Len(schema) : schema[j][1] = key
              IN  SampleValue(key, schema[i][2], FALSE)],
          [key \in {schema[1][1]} |-> SampleValue(key, schema[1][2], TRUE)] }

\* The tools whose body is the loop `for key, value in args.items(): if key in config:
\* config[key] = value` on one dictionary are grouped by that dictionary; the
\* confirmation text a set_* tool returns is shortened to "<tool> configured".
Configured(tool, args) == Handled(tool, args, <<Pt(tool \o " configured")>>, {})

\* set_data_collection, set_tracking_technologies, set_marketing_settings,
\* set_app_permissions, set_compliance_options, set_user_rights, set_security_settings
set_policy_tool(tool, args) ==
    /\ ncalls < MaxCalls
    /\ policy_config' = UpdateExisting(policy_config, args)
    /\ Configured(tool, args)
    /\ UNCHANGED <<tos_config, cookie_config, eula_config, refund_config>>

\* set_tos_service_details, set_tos_features, set_tos_legal_options, set_tos_liability
set_tos_tool(tool, args) ==
    /\ ncalls < MaxCalls
    /\ tos_config' = UpdateExisting(tos_config, args)
    /\ Configured(tool, args)
    /\ UNCHANGED <<policy_config, cookie_config, eula_config, refund_config>>

\* set_cookie_types, set_cookie_consent
set_cookie_tool(tool, args) ==
    /\ ncalls < MaxCalls
    /\ cookie_config' = UpdateExisting(cookie_config, args)
    /\ Configured(tool, args)
    /\ UNCHANGED <<policy_config, tos_config, eula_config, refund_config>>

\* set_eula_license_terms, set_eula_restrictions, set_eula_features, set_eula_warranty,
\* set_eula_legal
set_eula_tool(tool, args) ==
    /\ ncalls < MaxCalls
    /\ eula_config' = UpdateExisting(eula_config, args)
    /\ Configured(tool, args)
    /\ UNCHANGED <<policy_config, tos_config, cookie_config, refund_config>>

\* set_refund_general, set_refund_physical_products, set_refund_digital_subscription
set_refund_tool(tool, args) ==
    /\ ncalls < MaxCalls
    /\ refund_config' = UpdateExisting(refund_config, args)
    /\ Configured(tool, args)
    /\ UNCHANGED <<policy_config, tos_config, cookie_config, eula_config>>

set_social_logins(args) ==
    LET mapping == [facebook |-> "social_login_facebook", google |-> "social_login_google",
                    twitter |-> "social_login_twitter", github |-> "social_login_github",
                    linkedin |-> "social_login_linkedin"]
        set == {key \in DOMAIN mapping : key \in DOMAIN args}
    IN  /\ ncalls < MaxCalls
        /\ policy_config' =
              [k \in (DOMAIN policy_config) \cup {mapping[key] : key \in set} |->
                  IF \E key \in set : mapping[key] = k
                  THEN args[CHOOSE key \in set : mapping[key] = k]
                  ELSE policy_config[k]]
        /\ Configured("set_social_logins", args)
        /\ UNCHANGED <<tos_config, cookie_config, eula_config, refund_config>>

set_payment_settings(args) ==
    LET policy == SetKey(SetKey(policy_config, "accepts_payments",
                                GetD(args, "accepts_payments", B(FALSE))),
                         "payment_type", Get(args, "payment_type"))
        processors == L(SplitStrip(Str(Get(args, "payment_processors"))))
    IN  /\ ncalls < MaxCalls
        /\ IF Truthy(Get(args, "payment_processors"))
           THEN /\ policy_config' = SetKey(policy, "payment_processors", processors)
                /\ tos_config' = SetKey(tos_config, "payment_processors", processors)
           ELSE /\ policy_config' = policy
                /\ tos_config' = tos_config
        /\ Configured("set_payment_settings", args)
        /\ UNCHANGED <<cookie_config, eula_config, refund_config>>

set_data_sharing(args) ==
    LET policy == SetKey(SetKey(policy_config, "shares_with_third_parties",
                                GetD(args, "shares_with_third_parties", B(FALSE))),
                         "sells_data", GetD(args, "sells_data", B(FALSE)))
    IN  /\ ncalls < MaxCalls
        /\ policy_config' =
              IF Truthy(Get(args, "third_party_categories"))
              THEN SetKey(policy, "third_party_categories",
                          L(SplitStrip(Str(args["third_party_categories"]))))
              ELSE policy
        /\ Configured("set_data_sharing", args)
        /\ UNCHANGED <<tos_config, cookie_config, eula_config, refund_config>>

\* a faulty tool that stores the processors in the terms record only
set_tos_payment_options_unmirrored(args) ==
    LET keys == {"has_paid_services", "has_subscriptions", "has_free_trial",
                 "offers_refunds", "refund_period"} \cap DOMAIN args
        tos == [k \in (DOMAIN tos_config) \cup keys |->
                   IF k \in keys THEN args[k] ELSE tos_config[k]]
        processors == L(SplitStrip(Str(Get(args, "payment_processors"))))
    IN  /\ ncalls < MaxCalls
        /\ tos_config' = IF Truthy(Get(args, "payment_processors"))
                         THEN SetKey(tos, "payment_processors", processors) ELSE tos
        /\ Configured("set_tos_payment_options", args)
        /\ UNCHANGED <<policy_config, cookie_config, eula_config, refund_config>>

set_tos_payment_options(args) ==
    LET keys == {"has_paid_services", "has_subscriptions", "has_free_trial",
                 "offers_refunds", "refund_period"} \cap DOMAIN args
        tos == [k \in (DOMAIN tos_config) \cup keys |->
                   IF k \in keys THEN args[k] ELSE tos_config[k]]
        processors == L(SplitStrip(Str(Get(args, "payment_processors"))))
    IN  /\ ncalls < MaxCalls
        /\ IF Truthy(Get(args, "payment_processors"))
           THEN /\ tos_config' = SetKey(tos, "payment_processors", processors)
                /\ policy_config' = SetKey(policy_config, "payment_processors", processors)
           ELSE /\ tos_config' = tos
                /\ policy_config' = policy_config
        /\ Configured("set_tos_payment_options", args)
        /\ UNCHANGED <<cookie_config, eula_config, refund_config>>

set_tos_user_content(args) ==
    LET tos == SetKey(SetKey(tos_config, "allows_user_content",
                             GetD(args, "allows_user_content", B(FALSE))),
                      "moderates_content", GetD(args, "moderates_content", B(FALSE)))
    IN  /\ ncalls < MaxCalls
        /\ tos_config' =
              IF Truthy(Get(args, "user_content_types"))
              THEN SetKey(tos, "user_content_types",
                          L(SplitStrip(Str(args["user_content_types"]))))
              ELSE tos
        /\ Configured("set_tos_user_content", args)
        /\ UNCHANGED <<policy_config, cookie_config, eula_config, refund_config>>

set_cookie_analytics(args) ==
    LET cookie == UpdateExisting(cookie_config, args)
    IN  /\ ncalls < MaxCalls
        /\ cookie_config' = IF Truthy(Get(args, "uses_google_analytics"))
                            THEN SetKey(cookie, "uses_analytics", B(TRUE))
                            ELSE cookie
        /\ Configured("set_cookie_analytics", args)
        /\ UNCHANGED <<policy_config, tos_config, eula_config, refund_config>>

set_cookie_advertising(args) ==
    LET cookie == UpdateExisting(cookie_config, args)
    IN  /\ ncalls < MaxCalls
        /\ cookie_config' = IF \E key \in DOMAIN args : Truthy(args[key])
                            THEN SetKey(cookie, "uses_advertising_cookies", B(TRUE))
                            ELSE cookie
        /\ Configured("set_cookie_advertising", args)
        /\ UNCHANGED <<policy_config, tos_config, eula_config, refund_config>>

set_cookie_social(args) ==
    LET cookie == UpdateExisting(cookie_config, args)
        social_cookies == {"uses_facebook_cookies", "uses_twitter_cookies",
                           "uses_linkedin_cookies", "uses_instagram_cookies",
                           "uses_youtube_cookies", "uses_pinterest_cookies"}
    IN  /\ ncalls < MaxCalls
        /\ cookie_config' = IF \E k \in social_cookies : Truthy(Get(args, k))
                            THEN SetKey(cookie, "uses_social_cookies", B(TRUE))
                            ELSE cookie
        /\ Configured("set_cookie_social", args)
        /\ UNCHANGED <<policy_config, tos_config, eula_config, refund_config>>

set_cookie_third_party(args) ==
    LET cookie == SetKey(SetKey(cookie_config, "uses_hubspot",
                                GetD(args, "uses_hubspot", B(FALSE))),
                         "uses_intercom", GetD(args, "uses_intercom", B(FALSE)))
    IN  /\ ncalls < MaxCalls
        /\ cookie_config' =
              IF Truthy(Get(args, "third_party_cookies"))
              THEN SetKey(cookie, "third_party_cookies",
                          L(SplitStrip(Str(args["third_party_cookies"]))))
              ELSE cookie
        /\ Configured("set_cookie_third_party", args)
        /\ UNCHANGED <<policy_config, tos_config, eula_config, refund_config>>

set_refund_sale_items(args) ==
    /\ ncalls < MaxCalls
    /\ refund_config' = SetKey(refund_config, "sale_items_refundable",
                               GetD(args, "sale_items_refundable", B(TRUE)))
    /\ Configured("set_refund_sale_items", args)
    /\ UNCHANGED <<policy_config, tos_config, cookie_config, eula_config>>

\* time passes between two operations
Tick ==
    /\ clock < MaxClock
    /\ clock' = clock + 1
    /\ UNCHANGED <<main_vars, sessions, call, result, written, ncalls, g_doc, g_cfg, g_edited,
                 r_text>>

----------------------------------------------------------------------------
(* The tool server: the dictionaries as main.py defines them at import,    *)
(* then any sequence of tool calls.                                        *)

PolicyTools == {"set_data_collection", "set_tracking_technologies", "set_marketing_settings",
                "set_app_permissions", "set_compliance_options", "set_user_rights",
                "set_security_settings"}
TosTools == {"set_tos_service_details", "set_tos_features", "set_tos_legal_options",
             "set_tos_liability"}
CookieTools == {"set_cookie_types", "set_cookie_consent"}
EulaTools == {"set_eula_license_terms", "set_eula_restrictions", "set_eula_features",
              "set_eula_warranty", "set_eula_legal"}
RefundTools == {"set_refund_general", "set_refund_physical_products",
                "set_refund_digital_subscription"}

\* two customers' business details, as set_business_info receives them
BusinessProfile(key, other) ==
    CASE key = "platform_type" -> IF other THEN "app" ELSE "website"
      [] key = "business_type" -> IF other THEN "individual" ELSE "business"
      [] key = "company_name" -> IF other THEN "Beta LLC" ELSE "Acme Inc"
      [] key = "country" -> IF other THEN "Germany" ELSE "United States"
      [] key = "website_url" -> IF other THEN "https://beta.example" ELSE "https://acme.example"
      [] key = "website_name" -> IF other THEN "Beta" ELSE "Acme"
      [] key = "app_name" -> IF other THEN "Beta App" ELSE "Acme App"
      [] key = "company_address" -> IF other THEN "2 Side St" ELSE "1 Main St"
      [] key = "contact_email" -> IF other THEN "privacy@beta.example" ELSE "legal@acme.example"

IdentityKeys == {"platform_type", "website_url", "website_name", "app_name", "company_name",
                 "company_address", "country", "contact_email"}

BusinessInfoArgs ==
    LET all == IdentityKeys \cup {"business_type"}
    IN  { [key \in all |-> S(BusinessProfile(key, FALSE))],
          [key \in all |-> S(BusinessProfile(key, TRUE))],
          [key \in all |-> S("")],
          [key \in {"company_name", "app_name"} |-> S(BusinessProfile(key, TRUE))],
          EmptyArgs }

GenerateArgs == {EmptyArgs, [output_format |-> S("html")]}

Init ==
    /\ policy_config = Default_policy_config
    /\ tos_config = Default_tos_config
    /\ cookie_config = Default_cookie_config
    /\ eula_config = Default_eula_config
    /\ refund_config = Default_refund_config
    /\ sessions = EmptyArgs
    /\ clock = 0
    /\ call = [op |-> "start", args |-> EmptyArgs]
    /\ result = <<>>
    /\ written = {}
    /\ ncalls = 0
    /\ g_cfg = EmptyArgs
    /\ g_doc = "none"
    /\ g_edited = {}
    /\ r_text = <<>>

Next ==
    \/ \E args \in BusinessInfoArgs : set_business_info(args)
    \/ \E tool \in PolicyTools : \E args \in ToolArgs(tool) : set_policy_tool(tool, args)
    \/ \E tool \in TosTools : \E args \in ToolArgs(tool) : set_tos_tool(tool, args)
    \/ \E tool \in CookieTools : \E args \in ToolArgs(tool) : set_cookie_tool(tool, args)
    \/ \E tool \in EulaTools : \E args \in ToolArgs(tool) : set_eula_tool(tool, args)
    \/ \E tool \in RefundTools : \E args \in ToolArgs(tool) : set_refund_tool(tool, args)
    \/ \E args \in ToolArgs("set_social_logins") : set_social_logins(args)
    \/ \E args \in ToolArgs("set_payment_settings") : set_payment_settings(args)
    \/ \E args \in ToolArgs("set_data_sharing") : set_data_sharing(args)
    \/ \E args \in ToolArgs("set_tos_payment_options") : set_tos_payment_options(args)
    \/ \E args \in ToolArgs("set_tos_user_content") : set_tos_user_content(args)
    \/ \E args \in ToolArgs("set_cookie_analytics") : set_cookie_analytics(args)
    \/ \E args \in ToolArgs("set_cookie_advertising") : set_cookie_advertising(args)
    \/ \E args \in ToolArgs("set_cookie_social") : set_cookie_social(args)
    \/ \E args \in ToolArgs("set_cookie_third_party") : set_cookie_third_party(args)
    \/ \E args \in ToolArgs("set_refund_sale_items") : set_refund_sale_items(args)
    \/ get_current_config
    \/ reset_config
    \/ \E args \in GenerateArgs : generate_privacy_policy(args)
    \/ \E args \in GenerateArgs : generate_terms_of_service(args)
    \/ \E args \in GenerateArgs : generate_both_documents(args)
    \/ \E args \in GenerateArgs : generate_cookie_policy_tool(args)
    \/ \E args \in GenerateArgs : generate_eula_tool(args)
    \/ \E args \in GenerateArgs : generate_refund_policy_tool(args)
    \/ \E args \in GenerateArgs : generate_all_documents(args)
    \/ Tick

Spec == Init /\ [][Next]_vars

----------------------------------------------------------------------------
(* app.py: the REST API.  A session id is a string; the ids uuid.uuid4()   *)
(* hands out are SessionIds, all of which match the UUID pattern of        *)
(* GenerateRequest.validate_session_id; "not-a-uuid" does not.             *)

MaxRequests == 3    \* requests explored from the empty session store
MaxSessions == 2    \* session ids uuid4() can hand out

SessionIds == {"uuid-" \o ToString(i) : i \in 1..MaxSessions}
RequestIds == SessionIds \cup {"not-a-uuid"}

\* an HTTP response: its status code and its JSON body (or the error detail)
Response(status, body) == [status |-> status, body |-> body]

\* the bookkeeping shared by every request handler
Served(op, args, response, files) ==
    /\ ncalls' = ncalls + 1
    /\ call' = [op |-> op, args |-> args]
    /\ result' = response
    /\ written' = files
    /\ UNCHANGED <<main_vars, clock, g_doc, g_cfg, g_edited, r_text>>

\* a faulty create that hands out one shared default record: the new session sees what
\* the sessions before it wrote into it
create_session_v1_sharing(session_id) ==
    /\ ncalls < MaxRequests
    /\ session_id \in SessionIds \ DOMAIN sessions
    /\ \E shared \in {IF DOMAIN sessions = {} THEN get_default_config
                       ELSE sessions[CHOOSE other \in DOMAIN sessions : TRUE]} :
          /\ sessions' = SetKey(sessions, session_id, shared)
          /\ Served("create_session_v1", [session_id |-> session_id],
                    Response(200, [session_id |-> session_id, config |-> shared,
                                   created_at |-> TimestampFmt(clock)]), {})

\* POST /api/v1/sessions
create_session_v1(session_id) ==
    /\ ncalls < MaxRequests
    /\ session_id \in SessionIds \ DOMAIN sessions
    /\ sessions' = SetKey(sessions, session_id, get_default_config)
    /\ Served("create_session_v1", [session_id |-> session_id],
              Response(200, [session_id |-> session_id, config |-> get_default_config,
                             created_at |-> TimestampFmt(clock)]), {})

\* GET /api/v1/sessions/{session_id}
get_session_v1(session_id) ==
    /\ ncalls < MaxRequests
    /\ Served("get_session_v1", [session_id |-> session_id],
              IF session_id \notin DOMAIN sessions
              THEN Response(404, "Session not found")
              ELSE Response(200, [session_id |-> session_id,
                                  config |-> sessions[session_id]]), {})
    /\ UNCHANGED sessions

\* UpdateConfigRequest.validate_config: the request is refused (422) before the
\* handler runs when the patch names one of the dangerous keys
validate_config(config) ==
    DOMAIN config \cap {"__proto__", "constructor", "prototype"} = {}

\* PATCH /api/v1/sessions/{session_id}/config
update_config_v1(session_id, config) ==
    /\ ncalls < MaxRequests
    /\ IF ~validate_config(config)
       THEN /\ Served("update_config_v1", [session_id |-> session_id, config |-> config],
                      Response(422, "Invalid config key"), {})
            /\ UNCHANGED sessions
       ELSE IF session_id \notin DOMAIN sessions
       THEN /\ Served("update_config_v1", [session_id |-> session_id, config |-> config],
                      Response(404, "Session not found"), {})
            /\ UNCHANGED sessions
       ELSE LET current_config == UpdateExisting(sessions[session_id], config)
            IN  /\ sessions' = SetKey(sessions, session_id, current_config)
                /\ Served("update_config_v1",
                          [session_id |-> session_id, config |-> config],
                          Response(200, [status |-> "success", config |-> current_config]),
                          {})

\* POST /api/v1/sessions/{session_id}/reset
reset_session_v1(session_id) ==
    /\ ncalls < MaxRequests
    /\ sessions' = SetKey(sessions, session_id, get_default_config)
    /\ Served("reset_session_v1", [session_id |-> session_id],
              Response(200, [status |-> "success", config |-> get_default_config]), {})

DocTypes == {"privacy", "tos", "cookie", "eula", "refund"}

\* the generator a document type selects, and the label of its file name
GenerateDocument(doc_type, config, output_format, now) ==
    CASE doc_type = "privacy" -> generate_policy(config, output_format, now)
      [] doc_type = "tos" -> generate_tos(config, output_format, now)
      [] doc_type = "cookie" -> generate_cookie_policy(config, output_format, now)
      [] doc_type = "eula" -> generate_eula(config, output_format, now)
      [] doc_type = "refund" -> generate_refund_policy(config, output_format, now)

DocLabel(doc_type) ==
    CASE doc_type = "privacy" -> "privacy_policy"
      [] doc_type = "tos" -> "terms_of_service"
      [] doc_type = "cookie" -> "cookie_policy"
      [] doc_type = "eula" -> "eula"
      [] doc_type = "refund" -> "refund_policy"

\* a faulty cut that keeps the whole slug
First20_uncut(chars) == chars

\* chars[:20]
First20(chars) == SubSeq(chars, 1, IF Len(chars) < 20 THEN Len(chars) ELSE 20)

\* a faulty request model that takes any string as a document type
ValidGenerateRequest_any_type(request) ==
    /\ request.session_id \in SessionIds
    /\ request.output_format \in {"markdown", "html"}

\* GenerateRequest: session_id matches the UUID pattern, every doc_type and the
\* output_format are among the Literal values; otherwise 422 before the handler runs
ValidGenerateRequest(request) ==
    /\ request.session_id \in SessionIds
    /\ \A i \in 1..Len(request.doc_types) : request.doc_types[i] \in DocTypes
    /\ request.output_format \in {"markdown", "html"}

\* POST /api/v1/documents/generate
generate_documents_v1(request) ==
    /\ ncalls < MaxRequests
    /\ UNCHANGED sessions
    /\ IF ~ValidGenerateRequest(request)
       THEN Served("generate_documents_v1", request, Response(422, "validation error"), {})
       ELSE IF request.session_id \notin DOMAIN sessions
       THEN Served("generate_documents_v1", request, Response(400, "Invalid session"), {})
       ELSE \* `else: continue` skips a type none of the branches names
            \E doc_types \in {SelectSeq(request.doc_types, LAMBDA d : d \in DocTypes)} :
            \E texts \in {[i \in 1..Len(doc_types) |->
                            GenerateDocument(doc_types[i], sessions[request.session_id],
                                             request.output_format, clock)]} :
            LET config == sessions[request.session_id]
                company_slug ==
                    Cat(First20(LowerUnderscoreChars(
                            Chars(Str(Or(Get(config, "company_name"), S("document")))))))
                files == [i \in 1..Len(texts) |->
                            File(Filename(company_slug, DocLabel(doc_types[i]),
                                          clock, request.output_format), texts[i])]
                generated_docs ==
                    [i \in 1..Len(texts) |->
                        [doc_type |-> doc_types[i], filename |-> files[i].name,
                         content |-> texts[i], format |-> request.output_format]]
            IN  Served("generate_documents_v1", request,
                       IF FirstRaised(files) <= Len(files)
                       THEN Response(500, files[FirstRaised(files)].content)
                       ELSE Response(200, [status |-> "success",
                                           documents |-> generated_docs]),
                       WriteText(files))

\* a faulty preview whose generator fills the company name into the record it is given
preview_document_v1_filling(session_id, doc_type, format) ==
    /\ ncalls < MaxRequests
    /\ sessions' = IF session_id \in DOMAIN sessions /\ doc_type \in DocTypes
                   THEN [sessions EXCEPT ![session_id] = SetKey(@, "company_name", S("Company"))]
                   ELSE sessions
    /\ Served("preview_document_v1",
              [session_id |-> session_id, doc_type |-> doc_type, format |-> format],
              Response(200, [doc_type |-> doc_type, content |-> <<>>, format |-> format]), {})

\* GET /api/v1/documents/preview/{session_id}/{doc_type}?format=...
preview_document_v1(session_id, doc_type, format) ==
    /\ ncalls < MaxRequests
    /\ UNCHANGED sessions
    /\ LET args == [session_id |-> session_id, doc_type |-> doc_type, format |-> format]
       IN  IF session_id \notin DOMAIN sessions
           THEN Served("preview_document_v1", args, Response(404, "Session not found"), {})
           ELSE IF doc_type \notin DocTypes
           THEN Served("preview_document_v1", args,
                       Response(400, "Invalid document type"), {})
           ELSE \E content \in {GenerateDocument(doc_type, sessions[session_id],
                                                 format, clock)} :
                Served("preview_document_v1", args,
                       IF IsRaised(content) THEN Response(500, content)
                       ELSE Response(200, [doc_type |-> doc_type, content |-> content,
                                           format |-> format]),
                       {})

----------------------------------------------------------------------------
(* The web application: an empty session store, then any sequence of       *)
(* requests.                                                               *)

\* the JSON bodies of the PATCH requests explored
Patches ==
    { [company_name |-> S("Acme Inc")],
      [company_name |-> S("Beta LLC"), nickname |-> S("bee")],
      [company_name |-> S("Acme Corp!!")],
      [company_name |-> S("International Widgets Holdings")],
      [gdpr_compliant |-> B(TRUE), uses_analytics |-> B(TRUE)],
      [liability_cap |-> NONE],
      [key \in {"company_name", "__proto__"} |-> S("Acme Inc")] }

\* the JSON bodies of the generate requests explored
GenerateRequests ==
    { [session_id |-> session_id, doc_types |-> r[1], output_format |-> r[2]] :
        session_id \in RequestIds,
        r \in { <<<<"privacy">>, "markdown">>, <<<<"tos", "eula">>, "html">>,
                <<<<"cookie", "refund">>, "markdown">>, <<<<"privacy", "bogus">>, "html">>,
                <<<<"bogus">>, "markdown">>, <<<<"refund">>, "pdf">> } }

\* the (doc_type, format) pairs of the preview requests explored
Previews ==
    { <<"privacy", "html">>, <<"tos", "markdown">>, <<"cookie", "html">>,
      <<"eula", "markdown">>, <<"refund", "pdf">>, <<"bogus", "markdown">> }

InitWeb == Init

NextWeb ==
    \/ \E session_id \in SessionIds : create_session_v1(session_id)
    \/ \E session_id \in RequestIds : get_session_v1(session_id)
    \/ \E session_id \in RequestIds : \E config \in Patches :
          update_config_v1(session_id, config)
    \/ \E session_id \in RequestIds : reset_session_v1(session_id)
    \/ \E request \in GenerateRequests : generate_documents_v1(request)
    \/ \E session_id \in RequestIds : \E p \in Previews :
          preview_document_v1(session_id, p[1], p[2])
    \/ Tick

SpecWeb == InitWeb /\ [][NextWeb]_vars

----------------------------------------------------------------------------
(* Propagation of the business details.  The records are drawn as the      *)
(* tools can leave them when the fields arrive separately: a tool writes   *)
(* any key of its arguments that its record carries, so a record can hold  *)
(* a customer's details that the privacy record does not.                  *)

\* the keys of `keys` that config carries, set to the other customer's details
WithDetails(config, keys, value(_)) ==
    [k \in DOMAIN config |-> IF k \in keys THEN value(k) ELSE config[k]]

OtherDetail(key) == S(BusinessProfile(key, TRUE))
FirstDetail(key) == S(BusinessProfile(key, FALSE))
EmptyDetail(key) == S("")

\* what the privacy record holds of the first customer
PrimaryRecords ==
    { WithDetails(Default_policy_config, IdentityKeys, FirstDetail),
      WithDetails(Default_policy_config, {"company_name", "app_name", "platform_type"},
                  FirstDetail),
      Default_policy_config }

\* what a target record holds before generation: nothing, empty strings, the
\* other customer's details, or some of them
TargetFill == {"unset", "empty", "other", "partial"}

TargetRecord(config, fill) ==
    CASE fill = "unset" -> config
      [] fill = "empty" -> WithDetails(config, IdentityKeys, EmptyDetail)
      [] fill = "other" -> WithDetails(config, IdentityKeys, OtherDetail)
      [] fill = "partial" ->
            WithDetails(config, {"website_url", "company_address", "country"}, OtherDetail)

InitProp ==
    /\ policy_config \in PrimaryRecords
    /\ \E fill \in TargetFill :
          /\ tos_config = TargetRecord(Default_tos_config, fill)
          /\ cookie_config = TargetRecord(Default_cookie_config, fill)
          /\ eula_config = TargetRecord(Default_eula_config, fill)
          /\ refund_config = TargetRecord(Default_refund_config, fill)
    /\ sessions = EmptyArgs
    /\ clock = 0
    /\ call = [op |-> "start", args |-> EmptyArgs]
    /\ result = <<>>
    /\ written = {}
    /\ ncalls = 0
    /\ g_cfg = EmptyArgs
    /\ g_doc = "none"
    /\ g_edited = {}
    /\ r_text = <<>>

NextProp ==
    \/ \E args \in BusinessInfoArgs : set_business_info(args)
    \/ reset_config
    \/ \E args \in GenerateArgs : generate_privacy_policy(args)
    \/ \E args \in GenerateArgs : generate_terms_of_service(args)
    \/ \E args \in GenerateArgs : generate_both_documents(args)
    \/ \E args \in GenerateArgs : generate_cookie_policy_tool(args)
    \/ \E args \in GenerateArgs : generate_eula_tool(args)
    \/ \E args \in GenerateArgs : generate_refund_policy_tool(args)
    \/ \E args \in GenerateArgs : generate_all_documents(args)

SpecProp == InitProp /\ [][NextProp]_vars

----------------------------------------------------------------------------
(* The generators on their own: a document type and a configuration are    *)
(* drawn, one key the generator reads is set to a flag value or to an      *)
(* unset value (None, "", [], or the key removed), and the generator is    *)
(* called, as the test scripts call it.                                    *)

MaxEdits == 1    \* keys edited in one configuration

\* the keys each generator reads with config.get, by the type of their values
BoolKeys(doc_type) ==
    CASE doc_type = "privacy" -> {"accepts_payments", "allows_children_under_13",
                                  "allows_data_access", "allows_data_deletion",
                                  "allows_data_portability", "allows_opt_out", "caloppa_compliant",
                                  "ccpa_compliant", "collects_address", "collects_age",
                                  "collects_billing_address", "collects_email",
                                  "collects_job_title", "collects_name", "collects_password",
                                  "collects_payment_info", "collects_phone", "collects_username",
                                  "coppa_compliant", "displays_ads", "gdpr_compliant",
                                  "has_email_newsletter", "has_security_measures",
                                  "requests_camera", "requests_contacts", "requests_geolocation",
                                  "requests_microphone", "requests_photo_gallery",
                                  "requests_push_notifications", "sells_data",
                                  "shares_with_third_parties", "social_login_facebook",
                                  "social_login_github", "social_login_google",
                                  "social_login_linkedin", "social_login_twitter",
                                  "uses_analytics", "uses_cookies", "uses_encryption",
                                  "uses_facebook_pixel", "uses_google_maps", "uses_local_storage",
                                  "uses_retargeting", "uses_sessions", "uses_ssl",
                                  "uses_web_beacons"}
      [] doc_type = "tos" -> {"allows_user_content", "has_arbitration", "has_free_trial",
                              "has_paid_services", "has_subscriptions", "has_third_party_links",
                              "offers_refunds", "provides_api", "requires_account"}
      [] doc_type = "cookie" -> {"allows_children", "gdpr_compliant", "has_cookie_consent",
                                 "honors_dnt", "social_sharing_enabled",
                                 "uses_advertising_cookies", "uses_analytics",
                                 "uses_essential_cookies", "uses_facebook_cookies",
                                 "uses_facebook_pixel", "uses_functional_cookies",
                                 "uses_google_ads", "uses_google_analytics", "uses_hotjar",
                                 "uses_hubspot", "uses_instagram_cookies", "uses_intercom",
                                 "uses_linkedin_cookies", "uses_linkedin_insight",
                                 "uses_performance_cookies", "uses_pinterest_cookies",
                                 "uses_social_cookies", "uses_tiktok_pixel",
                                 "uses_twitter_cookies", "uses_twitter_pixel",
                                 "uses_youtube_cookies"}
      [] doc_type = "eula" -> {"auto_renewal", "collects_data", "has_export_restrictions",
                               "has_free_trial", "is_subscription", "is_transferable",
                               "no_commercial_use", "no_modification", "no_redistribution",
                               "no_reverse_engineering", "requires_account", "uses_third_party"}
      [] doc_type = "refund" -> {"has_satisfaction_guarantee", "has_subscriptions",
                                 "offers_exchanges", "offers_prorated_refunds",
                                 "requires_original_packaging", "requires_receipt",
                                 "sale_items_refundable"}

StrKeys(doc_type) ==
    CASE doc_type = "privacy" -> {"analytics_provider", "app_name", "company_address",
                                  "company_name", "contact_email", "contact_phone",
                                  "data_retention_period", "effective_date", "payment_type",
                                  "platform_type", "website_name", "website_url"}
      [] doc_type = "tos" -> {"app_name", "company_address", "company_name", "contact_email",
                              "contact_phone", "country", "dispute_resolution", "effective_date",
                              "governing_state", "jurisdiction", "minimum_age", "platform_type",
                              "refund_period", "website_name", "website_url"}
      [] doc_type = "cookie" -> {"analytics_provider", "company_address", "company_name",
                                 "contact_email", "effective_date", "privacy_email",
                                 "website_name", "website_url"}
      [] doc_type = "eula" -> {"app_name", "billing_cycle", "company_address", "company_name",
                               "contact_email", "dispute_resolution", "effective_date",
                               "jurisdiction", "liability_cap", "license_type", "trial_period",
                               "warranty_period", "website_name", "website_url"}
      [] doc_type = "refund" -> {"app_name", "business_type", "company_address", "company_name",
                                 "contact_email", "effective_date", "guarantee_period",
                                 "refund_period", "refund_processing_time", "restocking_fee",
                                 "return_period", "return_shipping", "subscription_refund_policy",
                                 "website_name", "website_url"}

ListKeys(doc_type) ==
    CASE doc_type = "privacy" -> {"payment_processors", "third_party_categories"}
      [] doc_type = "tos" -> {"payment_processors"}
      [] doc_type = "cookie" -> {"cookie_details", "third_party_cookies"}
      [] doc_type = "eula" -> {}
      [] doc_type = "refund" -> {}

ConfigKeys(doc_type) == BoolKeys(doc_type) \cup StrKeys(doc_type) \cup ListKeys(doc_type)

\* the values an edit gives a key: a flag, or what "unset" can be
EditValues(doc_type, key) ==
    IF key \in BoolKeys(doc_type) THEN {B(TRUE), B(FALSE), NONE}
    ELSE IF key \in ListKeys(doc_type) THEN {L(<<>>), NONE}
    ELSE {S(""), NONE}

\* the record main.py keeps for a document type
DefaultConfig(doc_type) ==
    CASE doc_type = "privacy" -> Default_policy_config
      [] doc_type = "tos" -> Default_tos_config
      [] doc_type = "cookie" -> Default_cookie_config
      [] doc_type = "eula" -> Default_eula_config
      [] doc_type = "refund" -> Default_refund_config

\* the configurations drawn: the empty one, main.py's record, app.py's session default
BaseConfigs(doc_type) == {EmptyArgs, DefaultConfig(doc_type), get_default_config}

\* config[key] = value
g_set(key, value) ==
    /\ Cardinality(g_edited) < MaxEdits
    /\ key \notin g_edited
    /\ g_cfg' = SetKey(g_cfg, key, value)
    /\ g_edited' = g_edited \cup {key}
    /\ UNCHANGED <<main_vars, sessions, clock, call, result, written, ncalls, g_doc,
                 r_text>>

\* del config[key]
g_remove(key) ==
    /\ Cardinality(g_edited) < MaxEdits
    /\ key \notin g_edited
    /\ key \in DOMAIN g_cfg
    /\ g_cfg' = [k \in (DOMAIN g_cfg) \ {key} |-> g_cfg[k]]
    /\ g_edited' = g_edited \cup {key}
    /\ UNCHANGED <<main_vars, sessions, clock, call, result, written, ncalls, g_doc,
                 r_text>>

\* generate_policy(config, format), generate_tos(config, format), ...
g_generate(output_format) ==
    \E text \in {GenerateDocument(g_doc, g_cfg, output_format, clock)} :
        /\ call' = [op |-> "generate",
                    args |-> [doc_type |-> g_doc, config |-> g_cfg,
                              output_format |-> output_format]]
        /\ result' = text
        /\ UNCHANGED <<main_vars, sessions, clock, written, ncalls, g_doc, g_cfg,
                     g_edited, r_text>>

InitGen ==
    /\ policy_config = Default_policy_config
    /\ tos_config = Default_tos_config
    /\ cookie_config = Default_cookie_config
    /\ eula_config = Default_eula_config
    /\ refund_config = Default_refund_config
    /\ sessions = EmptyArgs
    /\ clock = 0
    /\ call = [op |-> "start", args |-> EmptyArgs]
    /\ result = <<>>
    /\ written = {}
    /\ ncalls = 0
    /\ g_doc \in DocTypes
    /\ g_cfg \in BaseConfigs(g_doc)
    /\ g_edited = {}
    /\ r_text = <<>>

NextGen ==
    \/ \E key \in ConfigKeys(g_doc) : \E value \in EditValues(g_doc, key) : g_set(key, value)
    \/ \E key \in ConfigKeys(g_doc) : g_remove(key)
    \/ \E output_format \in {"markdown", "html"} : g_generate(output_format)

SpecGen == InitGen /\ [][NextGen]_vars

----------------------------------------------------------------------------
(* The markdown-to-HTML converters applied to a text of their own: any     *)
(* sequence of up to MaxLines markdown lines, given to the converter of    *)
(* one document type.                                                      *)

MaxLines == 3

\* the markdown lines the texts are made of: a heading, a paragraph, a paragraph that
\* starts with bold, a "- " item, an item with bold, a "1. " item, the empty line
MarkdownLines ==
    { H2("Heading"), Pt("text"), P(<<Bd("bold"), T(" text")>>), Lit("item"),
      Li(<<Bd("bold"), T(" item")>>), Ol(1, <<T("step")>>), Blank }

MarkdownTexts == UNION { [1..n -> MarkdownLines] : n \in 0..MaxLines }

\* _convert_to_html(text, {}) of the privacy, terms and cookie generators,
\* convert_to_html(text, title) of the EULA and refund generators
ConvertToHtml(doc_type, text) ==
    CASE doc_type = "privacy" -> privacy_convert_to_html(text, EmptyArgs)
      [] doc_type = "tos" -> tos_convert_to_html(text, EmptyArgs)
      [] doc_type = "cookie" -> cookie_convert_to_html(text, EmptyArgs)
      [] doc_type = "eula" -> convert_to_html(text, "EULA", FALSE)
      [] doc_type = "refund" -> convert_to_html(text, "Refund Policy", TRUE)

r_convert ==
    /\ call.op = "start"
    /\ call' = [op |-> "convert_to_html", args |-> [doc_type |-> g_doc, text |-> r_text]]
    /\ result' = ConvertToHtml(g_doc, r_text)
    /\ UNCHANGED <<main_vars, sessions, clock, written, ncalls, g_doc, g_cfg, g_edited,
                   r_text>>

InitRender ==
    /\ policy_config = Default_policy_config
    /\ tos_config = Default_tos_config
    /\ cookie_config = Default_cookie_config
    /\ eula_config = Default_eula_config
    /\ refund_config = Default_refund_config
    /\ sessions = EmptyArgs
    /\ clock = 0
    /\ call = [op |-> "start", args |-> EmptyArgs]
    /\ result = <<>>
    /\ written = {}
    /\ ncalls = 0
    /\ g_doc \in DocTypes
    /\ g_cfg = EmptyArgs
    /\ g_edited = {}
    /\ r_text \in MarkdownTexts

NextRender == r_convert

SpecRender == InitRender /\ [][NextRender]_vars

----------------------------------------------------------------------------
(* The cookie policy generator on configurations of third-party services:  *)
(* main.py's cookie record with every combination of the provider flags    *)
(* _generate_third_party_cookies reads, the advertising flag and the list  *)
(* of named third-party cookies main.py stores.                            *)

\* the provider flags, in the order _generate_third_party_cookies tests them
ProviderFlags ==
    << "uses_google_analytics", "uses_facebook_pixel", "uses_google_ads", "uses_hotjar",
       "uses_hubspot", "uses_intercom", "uses_linkedin_insight", "uses_twitter_pixel",
       "uses_tiktok_pixel" >>

ProviderFlagSet == {ProviderFlags[i] : i \in 1..Len(ProviderFlags)}

\* third_party_cookies as configure_cookie_policy stores it: a list of names
ThirdPartyLists == {L(<<>>), L(<<"Zendesk">>)}

\* the cookie record with the flags of `enabled` true and the other provider flags false
ThirdPartyConfig(enabled, advertising, third_party_cookies) ==
    [k \in DOMAIN Default_cookie_config \cup ProviderFlagSet
                  \cup {"uses_advertising_cookies", "third_party_cookies"} |->
        IF k \in ProviderFlagSet THEN B(k \in enabled)
        ELSE IF k = "uses_advertising_cookies" THEN B(advertising)
        ELSE IF k = "third_party_cookies" THEN third_party_cookies
        ELSE Default_cookie_config[k]]

InitCookie ==
    /\ policy_config = Default_policy_config
    /\ tos_config = Default_tos_config
    /\ cookie_config = Default_cookie_config
    /\ eula_config = Default_eula_config
    /\ refund_config = Default_refund_config
    /\ sessions = EmptyArgs
    /\ clock = 0
    /\ call = [op |-> "start", args |-> EmptyArgs]
    /\ result = <<>>
    /\ written = {}
    /\ ncalls = 0
    /\ g_doc = "cookie"
    /\ \E enabled \in SUBSET ProviderFlagSet : \E advertising \in BOOLEAN :
       \E third_party_cookies \in ThirdPartyLists :
           g_cfg = ThirdPartyConfig(enabled, advertising, third_party_cookies)
    /\ g_edited = {}
    /\ r_text = <<>>

\* generate_cookie_policy(config, format)
NextCookie == \E output_format \in {"markdown", "html"} : g_generate(output_format)

SpecCookie == InitCookie /\ [][NextCookie]_vars

----------------------------------------------------------------------------
(* The EULA generator on configurations of the license, subscription and   *)
(* warranty settings: main.py's EULA record with each of these keys given  *)
(* a value the tools can store, an unset value, or removed.                *)

\* stands for a key that is not in the dictionary
Absent == [t |-> "absent"]

\* config with config[key] = value, or without the key
Put(config, key, value) ==
    IF value = Absent THEN [k \in (DOMAIN config) \ {key} |-> config[k]]
    ELSE SetKey(config, key, value)

LicenseTypes == {Absent, NONE, S(""), S("perpetual"), S("subscription"), S("freemium")}
SubscriptionFlags == {Absent, NONE, B(TRUE), B(FALSE)}
BillingCycles == {Absent, S("monthly"), S("annually")}
WarrantyPeriods == {Absent, NONE, S("90 days")}

\* the EULA record with the six settings drawn
EulaConfig(license_type, is_subscription, billing_cycle, auto_renewal, has_warranty, period) ==
    Put(Put(Put(Put(Put(Put(Default_eula_config,
        "license_type", license_type), "is_subscription", is_subscription),
        "billing_cycle", billing_cycle), "auto_renewal", B(auto_renewal)),
        "has_warranty", B(has_warranty)), "warranty_period", period)

InitEula ==
    /\ policy_config = Default_policy_config
    /\ tos_config = Default_tos_config
    /\ cookie_config = Default_cookie_config
    /\ eula_config = Default_eula_config
    /\ refund_config = Default_refund_config
    /\ sessions = EmptyArgs
    /\ clock = 0
    /\ call = [op |-> "start", args |-> EmptyArgs]
    /\ result = <<>>
    /\ written = {}
    /\ ncalls = 0
    /\ g_doc = "eula"
    /\ \E license_type \in LicenseTypes : \E is_subscription \in SubscriptionFlags :
       \E billing_cycle \in BillingCycles : \E auto_renewal \in BOOLEAN :
       \E has_warranty \in BOOLEAN : \E warranty_period \in WarrantyPeriods :
           g_cfg = EulaConfig(license_type, is_subscription, billing_cycle, auto_renewal,
                              has_warranty, warranty_period)
    /\ g_edited = {}
    /\ r_text = <<>>

\* generate_eula(config, format)
NextEula == \E output_format \in {"markdown", "html"} : g_generate(output_format)

SpecEula == InitEula /\ [][NextEula]_vars

----------------------------------------------------------------------------
(* The five generators on configurations of the three names a header may   *)
(* show: the record main.py keeps for the type with company_name,          *)
(* website_name and app_name each set, unset (None or "") or removed.      *)

NameValues(name) == {Absent, NONE, S(""), S(name)}

NamedConfig(doc_type, company_name, website_name, app_name) ==
    Put(Put(Put(DefaultConfig(doc_type),
        "company_name", company_name), "website_name", website_name), "app_name", app_name)

InitNames ==
    /\ policy_config = Default_policy_config
    /\ tos_config = Default_tos_config
    /\ cookie_config = Default_cookie_config
    /\ eula_config = Default_eula_config
    /\ refund_config = Default_refund_config
    /\ sessions = EmptyArgs
    /\ clock = 0
    /\ call = [op |-> "start", args |-> EmptyArgs]
    /\ result = <<>>
    /\ written = {}
    /\ ncalls = 0
    /\ g_doc \in DocTypes
    /\ \E company_name \in NameValues("Acme Inc") : \E website_name \in NameValues("Acme Shop") :
       \E app_name \in NameValues("AcmeApp") :
           g_cfg = NamedConfig(g_doc, company_name, website_name, app_name)
    /\ g_edited = {}
    /\ r_text = <<>>

NextNames == \E output_format \in {"markdown", "html"} : g_generate(output_format)

SpecNames == InitNames /\ [][NextNames]_vars

----------------------------------------------------------------------------
(* The cookie tools of the tool server on their own: any sequence of the   *)
(* tools that write cookie_config, reset_config and the cookie generator.  *)

\* the argument dictionaries of a cookie tool: those of ToolArgs, every declared key
\* with its other sample (the flags false), and each declared key alone (a flag true)
CookieToolArgs(tool) ==
    LET schema == ToolSchema(tool)
    IN  ToolArgs(tool)
        \cup { [key \in {schema[i][1] : i \in 1..Len(schema)} |->
                  LET i == CHOOSE j \in 1..Len(schema) : schema[j][1] = key
                  IN  SampleValue(key, schema[i][2], TRUE)] }
        \cup { [key \in {schema[i][1]} |-> SampleValue(key, schema[i][2], FALSE)] :
                  i \in 1..Len(schema) }

NextCookieTools ==
    \/ \E tool \in CookieTools : \E args \in CookieToolArgs(tool) : set_cookie_tool(tool, args)
    \/ \E args \in CookieToolArgs("set_cookie_analytics") : set_cookie_analytics(args)
    \/ \E args \in CookieToolArgs("set_cookie_advertising") : set_cookie_advertising(args)
    \/ \E args \in CookieToolArgs("set_cookie_social") : set_cookie_social(args)
    \/ \E args \in CookieToolArgs("set_cookie_third_party") : set_cookie_third_party(args)
    \/ reset_config
    \/ \E args \in GenerateArgs : generate_cookie_policy_tool(args)

SpecCookieTools == Init /\ [][NextCookieTools]_vars

----------------------------------------------------------------------------
(* Properties of the propagation of business details *)

\* the tool calls that merge the privacy record's details into `record`
MergesInto(record) ==
    CASE record = "tos" -> {"generate_terms_of_service", "generate_both_documents",
                            "generate_all_documents"}
      [] record = "cookie" -> {"generate_cookie_policy", "generate_all_documents"}
      [] record = "eula" -> {"generate_eula", "generate_all_documents"}
      [] record = "refund" -> {"generate_refund_policy", "generate_all_documents"}

\* a step is a call of one of `ops`
CallOf(ops) == ncalls' = ncalls + 1 /\ call'.op \in ops

\* `before` and `after` are a target record around a merge from the privacy record
CopiedOnFirstWrite(before, after) ==
    \A k \in IdentityKeys \cap DOMAIN before :
        /\ k \in DOMAIN after
        /\ IF Truthy(before[k]) THEN after[k] = before[k]
           ELSE IF Truthy(Get(policy_config, k)) THEN after[k] = policy_config[k]
           ELSE after[k] = before[k]

\* C1: when a generation tool merges the privacy record's business details into a
\* target record, every identity field the target carries that was unset (None or "")
\* receives the privacy record's value if it has one, and every identity field that
\* already held a non-empty value is left exactly as it was; this for the terms of
\* service, cookie, EULA and refund records.
C1_CopyOnFirstWrite ==
    [][ /\ CallOf(MergesInto("tos")) => CopiedOnFirstWrite(tos_config, tos_config')
        /\ CallOf(MergesInto("cookie")) => CopiedOnFirstWrite(cookie_config, cookie_config')
        /\ CallOf(MergesInto("eula")) => CopiedOnFirstWrite(eula_config, eula_config')
        /\ CallOf(MergesInto("refund")) => CopiedOnFirstWrite(refund_config, refund_config')
      ]_vars

\* a cookie record that kept its own website and got the company name from the
\* privacy record
C1_Witness ==
    /\ call.op = "generate_cookie_policy"
    /\ policy_config.website_url = S("https://acme.example")
    /\ cookie_config.website_url = S("https://beta.example")
    /\ cookie_config.company_name = S("Acme Inc")

\* the five configuration records of the tool server
Records == <<policy_config, tos_config, cookie_config, eula_config, refund_config>>

\* C2: in every state the tool calls can reach, each business-identity field has the
\* same value in every one of the five configuration records that carries it.
C2_IdentityFieldsAgree ==
    \A k \in IdentityKeys : \A i, j \in 1..Len(Records) :
        (k \in DOMAIN Records[i] /\ k \in DOMAIN Records[j]) => Records[i][k] = Records[j][k]

\* a second call replaced the company name in every record and left the first
\* call's contact address in every record
C2_Witness ==
    /\ ncalls = 2
    /\ call.op = "set_business_info"
    /\ policy_config.company_name = S("Beta LLC")
    /\ eula_config.company_name = S("Beta LLC")
    /\ refund_config.contact_email = S("legal@acme.example")

\* no identity field the record carries is unset while the privacy record has a value
Filled(record) ==
    \A k \in IdentityKeys \cap DOMAIN record :
        Truthy(Get(policy_config, k)) => Truthy(record[k])

\* some file written by the call holds `text`
Wrote(files, text) == \E f \in files : f.content = text

\* C3: every call that generates a non-privacy document (generate_terms_of_service,
\* generate_cookie_policy, generate_eula, generate_refund_policy,
\* generate_both_documents, generate_all_documents) first fills the unset identity
\* fields of the target record from the privacy record, and the document it writes is
\* assembled from the filled record, whatever calls came before.
C3_MergedBeforeAssembly ==
    [][ /\ CallOf(MergesInto("tos")) =>
              /\ Filled(tos_config)'
              /\ Wrote(written', generate_tos(tos_config', OutputFormat(call'.args), clock))
        /\ CallOf(MergesInto("cookie")) =>
              /\ Filled(cookie_config)'
              /\ Wrote(written', generate_cookie_policy(cookie_config',
                                                        OutputFormat(call'.args), clock))
        /\ CallOf(MergesInto("eula")) =>
              /\ Filled(eula_config)'
              /\ Wrote(written', generate_eula(eula_config', OutputFormat(call'.args), clock))
        /\ CallOf(MergesInto("refund")) =>
              /\ Filled(refund_config)'
              /\ Wrote(written', generate_refund_policy(refund_config',
                                                        OutputFormat(call'.args), clock))
      ]_vars

\* an EULA written after an earlier call, for a record that got the application name
\* from the privacy record and kept its own website
C3_Witness ==
    /\ ncalls = 2
    /\ call.op = "generate_eula"
    /\ eula_config.app_name = S("Acme App")
    /\ eula_config.website_url = S("https://beta.example")
    /\ Wrote(written, generate_eula(eula_config, "markdown", clock))

\* exactly the fields of `keys` are propagated from the privacy record into a target
\* record: each of them that is unset in `before` and set in the privacy record holds
\* the privacy record's value in `after`, and no other key of the record changes or
\* appears
PropagatesExactly(keys, before, after) ==
    /\ \A k \in keys :
          (Truthy(Get(policy_config, k)) /\ ~Truthy(Get(before, k))) =>
              (k \in DOMAIN after /\ after[k] = policy_config[k])
    /\ \A k \in (DOMAIN before \cup DOMAIN after) \ keys :
          k \in DOMAIN before /\ k \in DOMAIN after /\ after[k] = before[k]

\* C4 as stated: the fields propagated from the privacy record are exactly the eight
\* identity fields, for every target record and every generation call.
C4_AllEightEverywhere ==
    [][ /\ CallOf(MergesInto("tos")) =>
              PropagatesExactly(IdentityKeys, tos_config, tos_config')
        /\ CallOf(MergesInto("cookie")) =>
              PropagatesExactly(IdentityKeys, cookie_config, cookie_config')
        /\ CallOf(MergesInto("eula")) =>
              PropagatesExactly(IdentityKeys, eula_config, eula_config')
        /\ CallOf(MergesInto("refund")) =>
              PropagatesExactly(IdentityKeys, refund_config, refund_config')
      ]_vars

\* the identity fields the cookie and the refund record carry
FiveIdentityKeys ==
    {"company_name", "website_url", "website_name", "company_address", "contact_email"}

\* C4, amended: the fields propagated from the privacy record are exactly the identity
\* fields the target record carries: all eight for the terms of service; company_name,
\* website_url, website_name, company_address and contact_email for the cookie and the
\* refund record; those five and app_name for the EULA; this in every generation call.
C4_CarriedFieldsOnly ==
    [][ /\ CallOf(MergesInto("tos")) =>
              PropagatesExactly(IdentityKeys, tos_config, tos_config')
        /\ CallOf(MergesInto("cookie")) =>
              PropagatesExactly(FiveIdentityKeys, cookie_config, cookie_config')
        /\ CallOf(MergesInto("eula")) =>
              PropagatesExactly(FiveIdentityKeys \cup {"app_name"}, eula_config, eula_config')
        /\ CallOf(MergesInto("refund")) =>
              PropagatesExactly(FiveIdentityKeys, refund_config, refund_config')
      ]_vars

\* a cookie record filled with the contact address while the privacy record's
\* platform type and country stayed out of it
C4_Witness ==
    /\ call.op = "generate_cookie_policy"
    /\ policy_config.platform_type = S("website")
    /\ policy_config.country = S("United States")
    /\ cookie_config.contact_email = S("legal@acme.example")
    /\ cookie_config.website_url = S("https://beta.example")
    /\ "platform_type" \notin DOMAIN cookie_config
    /\ "country" \notin DOMAIN cookie_config

----------------------------------------------------------------------------
(* Properties of the REST API *)

\* a step is a PATCH request for a session the store holds
PatchOf(session_id) ==
    /\ ncalls' = ncalls + 1
    /\ call'.op = "update_config_v1"
    /\ call'.args.session_id = session_id
    /\ session_id \in DOMAIN sessions

\* `after` is `before` with the patch's values on the keys `before` holds
WhitelistMerged(before, patch, after) ==
    /\ DOMAIN after = DOMAIN before
    /\ \A k \in DOMAIN before : after[k] = IF k \in DOMAIN patch THEN patch[k] ELSE before[k]

\* every record of the store has the keys of the default configuration
DefaultKeySet(store) == \A id \in DOMAIN store : DOMAIN store[id] = DOMAIN get_default_config

\* C5 as stated: for any patch, PATCH /sessions/{id}/config gives every patch key the
\* record holds the patch value, drops every other patch key silently, keeps every
\* record key the patch does not name, and keeps the key set; after any sequence of
\* merges the key set is that of the default configuration.
C5_AnyPatchMerges ==
    [][ /\ \A id \in SessionIds :
              PatchOf(id) =>
                  /\ result'.status = 200
                  /\ WhitelistMerged(sessions[id], call'.args.config, sessions'[id])
        /\ DefaultKeySet(sessions')
      ]_vars

\* C5, amended: for any patch the request model accepts (none of its keys is
\* __proto__, constructor or prototype), PATCH /sessions/{id}/config gives every patch
\* key the record holds the patch value, drops every other patch key silently, keeps
\* every record key the patch does not name, and keeps the key set; a patch that names
\* one of the three keys is refused with 422 and changes no record; after any sequence
\* of requests the key set of every record is that of the default configuration.
C5_AcceptedPatchMerges ==
    [][ /\ \A id \in SessionIds :
              PatchOf(id) =>
                  IF DOMAIN call'.args.config \cap {"__proto__", "constructor", "prototype"} = {}
                  THEN /\ result'.status = 200
                       /\ WhitelistMerged(sessions[id], call'.args.config, sessions'[id])
                       /\ \A other \in DOMAIN sessions' \ {id} :
                             other \in DOMAIN sessions /\ sessions'[other] = sessions[other]
                  ELSE /\ result'.status = 422
                       /\ sessions' = sessions
        /\ DefaultKeySet(sessions')
      ]_vars

\* a patch merged into a session: its known key took the value, its unknown key is
\* not in the record
C5_Witness ==
    /\ call.op = "update_config_v1"
    /\ result.status = 200
    /\ "nickname" \in DOMAIN call.args.config
    /\ sessions[call.args.session_id].company_name = S("Beta LLC")
    /\ "nickname" \notin DOMAIN sessions[call.args.session_id]

\* the document types the API names
KnownTypes == {"privacy", "tos", "cookie", "eula", "refund"}

\* C7: a generation request that names a document type outside privacy, tos, cookie,
\* eula, refund is refused with an error and produces no document: the response is a
\* client error without content and no file is written, on the generate and on the
\* preview entry point.
C7_UnknownTypeRefused ==
    /\ ( /\ call.op = "generate_documents_v1"
         /\ \E i \in 1..Len(call.args.doc_types) : call.args.doc_types[i] \notin KnownTypes )
        => (result.status \in {400, 422} /\ written = {})
    /\ ( /\ call.op = "preview_document_v1"
         /\ call.args.doc_type \notin KnownTypes )
        => (result.status \in {400, 404} /\ written = {})

\* a request for a known and an unknown type on an open session, refused whole
C7_Witness ==
    /\ call.op = "generate_documents_v1"
    /\ call.args.doc_types = <<"privacy", "bogus">>
    /\ call.args.session_id \in DOMAIN sessions
    /\ result.status = 422
    /\ written = {}

----------------------------------------------------------------------------
(* Properties of the generators *)

\* the last call was a generator call for one of the five document types
Generated == call.op = "generate" /\ call.args.doc_type \in KnownTypes

\* C6 as stated: for each of the five document types and every configuration in which
\* any field may be missing or unset (absent key, None or empty string), the generator
\* returns a document and never raises an error.
C6_NeverRaises == Generated => ~IsRaised(result)

\* the heading line of a section, in markdown and as _convert_to_html renders it
HeadingLine(output_format, level, heading) ==
    IF output_format = "html"
    THEN RawLine(<<"<" \o level \o ">", heading, "</" \o level \o ">">>)
    ELSE Ln(level, <<T(heading)>>)

HasHeading(text, output_format, level, heading) ==
    \E i \in 1..Len(text) : text[i] = HeadingLine(output_format, level, heading)

\* the title of each document and the headings of its introduction and contact sections
Title(doc_type) ==
    CASE doc_type = "privacy" -> "Privacy Policy"
      [] doc_type = "tos" -> "Terms of Service"
      [] doc_type = "cookie" -> "Cookie Policy"
      [] doc_type = "eula" -> "End User License Agreement (EULA)"
      [] doc_type = "refund" -> "Refund Policy"

IntroductionHeading(doc_type) ==
    IF doc_type = "tos" THEN "Agreement to Terms" ELSE "Introduction"

ContactHeading(doc_type) ==
    IF doc_type = "eula" THEN "Contact Information" ELSE "Contact Us"

\* the conditional sections of each document: heading, and whether the inclusion
\* predicate of the generator's section list holds on config
ConditionalSections(doc_type, config) ==
    CASE doc_type = "privacy" ->
            { <<"Tracking Technologies",
                AnyKey(config, <<"uses_cookies", "uses_web_beacons", "uses_local_storage",
                                 "uses_sessions", "uses_google_maps">>)>>,
              <<"Social Media Login",
                AnyKey(config, <<"social_login_facebook", "social_login_google",
                                 "social_login_twitter", "social_login_github",
                                 "social_login_linkedin">>)>>,
              <<"Marketing and Advertising",
                AnyKey(config, <<"has_email_newsletter", "uses_analytics", "displays_ads",
                                 "uses_facebook_pixel", "uses_retargeting">>)>>,
              <<"Mobile Application Permissions",
                Get(config, "platform_type") \in {S("app"), S("both")}
                    /\ AnyKey(config, <<"requests_geolocation", "requests_contacts",
                                        "requests_camera", "requests_photo_gallery",
                                        "requests_microphone",
                                        "requests_push_notifications">>)>>,
              <<"Payment Processing", Truthy(Get(config, "accepts_payments"))>>,
              <<"GDPR Privacy Rights (European Economic Area)",
                Truthy(Get(config, "gdpr_compliant"))>>,
              <<"CCPA Privacy Rights (California Residents)",
                Truthy(Get(config, "ccpa_compliant"))>>,
              <<"CalOPPA Compliance (California Online Privacy Protection Act)",
                Truthy(Get(config, "caloppa_compliant"))>> }
      [] doc_type = "tos" ->
            { <<"Account Registration and Security", Truthy(Get(config, "requires_account"))>>,
              <<"Payments and Subscriptions", Truthy(Get(config, "has_paid_services"))>>,
              <<"User Content", Truthy(Get(config, "allows_user_content"))>>,
              <<"Third-Party Links and Services", Truthy(Get(config, "has_third_party_links"))>>,
              <<"API Terms", Truthy(Get(config, "provides_api"))>>,
              <<"Dispute Resolution",
                Truthy(Get(config, "has_arbitration"))
                    \/ Truthy(Get(config, "dispute_resolution"))>> }
      [] doc_type = "cookie" ->
            { <<"Specific Cookies Used", Truthy(Get(config, "cookie_details"))>>,
              <<"Third-Party Cookies",
                AnyKey(config, <<"uses_google_analytics", "uses_facebook_pixel", "uses_hotjar",
                                 "uses_hubspot", "uses_intercom", "uses_advertising_cookies",
                                 "third_party_cookies">>)>>,
              <<"Analytics", Truthy(Get(config, "uses_analytics"))>>,
              <<"Advertising and Targeting", Truthy(Get(config, "uses_advertising_cookies"))>>,
              <<"Social Media Cookies",
                AnyKey(config, <<"uses_facebook_cookies", "uses_twitter_cookies",
                                 "uses_linkedin_cookies", "uses_instagram_cookies",
                                 "uses_youtube_cookies", "uses_social_cookies",
                                 "social_sharing_enabled">>)>>,
              <<"Cookie Consent", Truthy(Get(config, "has_cookie_consent"))>>,
              <<"EU/GDPR Cookie Compliance", Truthy(Get(config, "gdpr_compliant"))>> }
      [] doc_type = "eula" ->
            { <<"User Accounts", Truthy(GetD(config, "requires_account", B(FALSE)))>>,
              <<"Subscription Terms", Truthy(GetD(config, "is_subscription", B(FALSE)))>>,
              <<"Free Trial", Truthy(GetD(config, "has_free_trial", B(FALSE)))>>,
              <<"Data Collection and Privacy", Truthy(GetD(config, "collects_data", B(TRUE)))>>,
              <<"Third-Party Components", Truthy(GetD(config, "uses_third_party", B(TRUE)))>>,
              <<"Export Compliance",
                Truthy(GetD(config, "has_export_restrictions", B(TRUE)))>> }
      [] doc_type = "refund" ->
            { <<"Satisfaction Guarantee",
                Truthy(GetD(config, "has_satisfaction_guarantee", B(FALSE)))>>,
              <<"Refund Policy for Digital Products/Services",
                GetD(config, "business_type", S("services"))
                    \in {S("digital"), S("services"), S("subscription")}>>,
              <<"Return Policy for Physical Products",
                GetD(config, "business_type", S("services")) = S("products")>>,
              <<"Subscription Refunds",
                GetD(config, "business_type", S("services")) = S("subscription")
                    \/ Truthy(GetD(config, "has_subscriptions", B(FALSE)))>> }

\* the inclusion predicate of the section under `heading` holds on config
Includes(doc_type, config, heading) == <<heading, TRUE>> \in ConditionalSections(doc_type, config)

\* the generator was called with the empty or a default configuration
GeneratedFromDefaults == Generated /\ call.args.config \in BaseConfigs(call.args.doc_type)

\* C8: for each of the five document types, generating from the empty configuration
\* and from the default configuration returns non-empty text that contains the header
\* (the document's title), the introduction and the contact section, and contains no
\* conditional section whose inclusion predicate is false on that configuration.
C8_TotalOnDefaults ==
    GeneratedFromDefaults =>
        LET doc_type == call.args.doc_type
            format == call.args.output_format
        IN  /\ result # <<>>
            /\ ~IsRaised(result)
            /\ HasHeading(result, format, "h1", Title(doc_type))
            /\ HasHeading(result, format, "h2", IntroductionHeading(doc_type))
            /\ HasHeading(result, format, "h2", ContactHeading(doc_type))
            /\ \A s \in ConditionalSections(doc_type, call.args.config) :
                  ~s[2] => ~HasHeading(result, format, "h2", s[1])

\* the EULA generated from app.py's default configuration, in HTML: it has the
\* subscription section and no free-trial section
C8_Witness ==
    /\ GeneratedFromDefaults
    /\ call.args.doc_type = "eula"
    /\ call.args.config = get_default_config
    /\ call.args.output_format = "html"
    /\ HasHeading(result, "html", "h2", "Contact Information")
    /\ ~HasHeading(result, "html", "h2", "Free Trial")

\* C9 as stated: two calls of generate with identical document type, configuration and
\* format yield identical output, whatever the clock reads inside the generator: a
\* preview request repeated on an unchanged session returns what it returned before.
C9_Deterministic ==
    [][ ( /\ call.op = "preview_document_v1"
          /\ call'.op = "preview_document_v1"
          /\ ncalls' = ncalls + 1
          /\ call'.args = call.args
          /\ sessions' = sessions )
        => result' = result ]_vars

----------------------------------------------------------------------------
(* Sections of a markdown text: the lines from one "## " heading up to the *)
(* next, blank lines left out; the lines before the first heading are the  *)
(* header.                                                                 *)

HeadingPositions(text) ==
    SelectSeq([i \in 1..Len(text) |-> i], LAMBDA i : text[i].k = "h2")

NonBlank(lines) == SelectSeq(lines, LAMBDA l : l.k # "blank")

Sections(text) ==
    LET at == HeadingPositions(text)
        end(n) == IF n = Len(at) THEN Len(text) ELSE at[n + 1] - 1
    IN  IF at = <<>> THEN <<NonBlank(text)>>
        ELSE <<NonBlank(SubSeq(text, 1, at[1] - 1))>>
             \o [n \in 1..Len(at) |-> NonBlank(SubSeq(text, at[n], end(n)))]

\* the sections of text but the one under `heading`
SectionsBut(text, heading) ==
    SelectSeq(Sections(text), LAMBDA s : s = <<>> \/ s[1] # H2(heading))

\* the flags that gate a conditional section, with the section's heading
GatingFlags(doc_type) ==
    CASE doc_type = "privacy" ->
            { <<f, "Tracking Technologies">> :
                f \in {"uses_cookies", "uses_web_beacons", "uses_local_storage",
                       "uses_sessions", "uses_google_maps"} }
            \cup { <<f, "Social Media Login">> :
                f \in {"social_login_facebook", "social_login_google", "social_login_twitter",
                       "social_login_github", "social_login_linkedin"} }
            \cup { <<f, "Marketing and Advertising">> :
                f \in {"has_email_newsletter", "uses_analytics", "displays_ads",
                       "uses_facebook_pixel", "uses_retargeting"} }
            \cup { <<f, "Mobile Application Permissions">> :
                f \in {"requests_geolocation", "requests_contacts", "requests_camera",
                       "requests_photo_gallery", "requests_microphone",
                       "requests_push_notifications"} }
            \cup { <<"accepts_payments", "Payment Processing">>,
                   <<"gdpr_compliant", "GDPR Privacy Rights (European Economic Area)">>,
                   <<"ccpa_compliant", "CCPA Privacy Rights (California Residents)">>,
                   <<"caloppa_compliant",
                     "CalOPPA Compliance (California Online Privacy Protection Act)">> }
      [] doc_type = "tos" ->
            { <<"requires_account", "Account Registration and Security">>,
              <<"has_paid_services", "Payments and Subscriptions">>,
              <<"allows_user_content", "User Content">>,
              <<"has_third_party_links", "Third-Party Links and Services">>,
              <<"provides_api", "API Terms">>,
              <<"has_arbitration", "Dispute Resolution">> }
      [] doc_type = "cookie" ->
            { <<f, "Third-Party Cookies">> :
                f \in {"uses_google_analytics", "uses_facebook_pixel", "uses_hotjar",
                       "uses_hubspot", "uses_intercom", "uses_advertising_cookies"} }
            \cup { <<f, "Social Media Cookies">> :
                f \in {"uses_facebook_cookies", "uses_twitter_cookies",
                       "uses_linkedin_cookies", "uses_instagram_cookies",
                       "uses_youtube_cookies", "uses_social_cookies",
                       "social_sharing_enabled"} }
            \cup { <<"uses_analytics", "Analytics">>,
                   <<"uses_advertising_cookies", "Advertising and Targeting">>,
                   <<"has_cookie_consent", "Cookie Consent">>,
                   <<"gdpr_compliant", "EU/GDPR Cookie Compliance">> }
      [] doc_type = "eula" ->
            { <<"requires_account", "User Accounts">>,
              <<"is_subscription", "Subscription Terms">>,
              <<"has_free_trial", "Free Trial">>,
              <<"collects_data", "Data Collection and Privacy">>,
              <<"uses_third_party", "Third-Party Components">>,
              <<"has_export_restrictions", "Export Compliance">> }
      [] doc_type = "refund" ->
            { <<"has_satisfaction_guarantee", "Satisfaction Guarantee">>,
              <<"has_subscriptions", "Subscription Refunds">> }

\* the configurations differ in `flag` alone, which is `from` in the first and `to` in
\* the second
Switched(before, after, flag, from, to) ==
    /\ DOMAIN before = DOMAIN after
    /\ flag \in DOMAIN before
    /\ before[flag] = B(from)
    /\ after[flag] = B(to)
    /\ \A k \in DOMAIN before \ {flag} : after[k] = before[k]

\* a step from one markdown document to the next one of the same type
Regenerated ==
    /\ call.op = "generate"
    /\ call'.op = "generate"
    /\ call'.args.doc_type = call.args.doc_type
    /\ call.args.output_format = "markdown"
    /\ call'.args.output_format = "markdown"
    /\ ~IsRaised(result) /\ ~IsRaised(result')

\* C10 as stated: for every conditional section of every document type, switching the
\* section's gating flag from false to true with all other fields fixed adds the
\* section's heading to the output, switching it back removes it, and the text of every
\* other section is identical in both outputs.
C10_GatingFlagTogglesOneSection ==
    [][ Regenerated =>
          \A g \in GatingFlags(call.args.doc_type) :
              /\ Switched(call.args.config, call'.args.config, g[1], FALSE, TRUE) =>
                    /\ ~HasHeading(result, "markdown", "h2", g[2])
                    /\ HasHeading(result', "markdown", "h2", g[2])
                    /\ SectionsBut(result', g[2]) = SectionsBut(result, g[2])
              /\ Switched(call.args.config, call'.args.config, g[1], TRUE, FALSE) =>
                    /\ HasHeading(result, "markdown", "h2", g[2])
                    /\ ~HasHeading(result', "markdown", "h2", g[2])
                    /\ SectionsBut(result', g[2]) = SectionsBut(result, g[2])
      ]_vars

\* the sections of text but those under `headings`
SectionsOutside(text, headings) ==
    SelectSeq(Sections(text), LAMBDA s : s = <<>> \/ \A h \in headings : s[1] # H2(h))

\* the sections that read `flag`: the sections it gates and, in the cookie policy, the
\* two overviews that list the cookie categories in use and the analytics section,
\* which says whether advertising features are enabled
SectionsReading(doc_type, flag) ==
    {g[2] : g \in {x \in GatingFlags(doc_type) : x[1] = flag}}
    \cup (IF doc_type = "cookie"
             /\ flag \in {"uses_analytics", "uses_advertising_cookies", "uses_social_cookies"}
          THEN {"How We Use Cookies", "Types of Cookies We Use"}
          ELSE {})
    \cup (IF doc_type = "cookie" /\ flag = "uses_advertising_cookies"
          THEN {"Analytics"}
          ELSE {})

\* `on` and `off` are the documents for a configuration with the flag of g set and
\* cleared
GatedBy(doc_type, g, config_on, on, config_off, off) ==
    /\ Includes(doc_type, config_on, g[2]) => HasHeading(on, "markdown", "h2", g[2])
    /\ ~Includes(doc_type, config_off, g[2]) => ~HasHeading(off, "markdown", "h2", g[2])
    /\ SectionsOutside(on, SectionsReading(doc_type, g[1]))
         = SectionsOutside(off, SectionsReading(doc_type, g[1]))

\* C10, amended: for every conditional section of every document type, switching one
\* of the section's gating flags from false to true with all other fields fixed adds the
\* section's heading to the output whenever the section's inclusion predicate then holds
\* (the mobile permissions section also needs platform_type app or both), switching it
\* back removes the heading whenever no other flag of the predicate holds, and the text
\* of every section that does not read the flag is identical in both outputs; in the
\* cookie policy "How We Use Cookies" and "Types of Cookies We Use" read uses_analytics,
\* uses_advertising_cookies and uses_social_cookies, "Analytics" reads
\* uses_advertising_cookies, and uses_advertising_cookies gates both "Third-Party
\* Cookies" and "Advertising and Targeting".
C10_GatingFlagTogglesItsSections ==
    [][ Regenerated =>
          \A g \in GatingFlags(call.args.doc_type) :
              /\ Switched(call.args.config, call'.args.config, g[1], FALSE, TRUE) =>
                    GatedBy(call.args.doc_type, g, call'.args.config, result',
                            call.args.config, result)
              /\ Switched(call.args.config, call'.args.config, g[1], TRUE, FALSE) =>
                    GatedBy(call.args.doc_type, g, call.args.config, result,
                            call'.args.config, result')
      ]_vars

\* the cookie policy regenerated after uses_social_cookies was switched on in main.py's
\* default record: the social media section is there
C10_Witness ==
    /\ call.op = "generate"
    /\ call.args.doc_type = "cookie"
    /\ call.args.output_format = "markdown"
    /\ g_edited = {"uses_social_cookies"}
    /\ call.args.config = SetKey(Default_cookie_config, "uses_social_cookies", B(TRUE))
    /\ Default_cookie_config.uses_social_cookies = B(FALSE)
    /\ HasHeading(result, "markdown", "h2", "Social Media Cookies")

----------------------------------------------------------------------------
(* The suggested file names of the REST API *)

\* the documents of a successful generate response, else none
SuggestedDocuments ==
    IF call.op = "generate_documents_v1" /\ result.status = 200
    THEN result.body.documents ELSE <<>>

\* the company name of the session the last request named
RequestedCompany == Get(sessions[call.args.session_id], "company_name")

\* slug_label_timestamp.ext for one of the timestamps of the clock
NamedAs(filename, slug, label, output_format) ==
    \E now \in 0..MaxClock :
        filename = slug \o "_" \o label \o "_" \o TimestampFmt(now) \o "."
                        \o (IF output_format = "html" THEN "html" ELSE "md")

\* the label the claim's rule gives a document type
TypeLabel(doc_type) ==
    CASE doc_type = "privacy" -> "privacy_policy"
      [] doc_type = "tos" -> "terms_of_service"
      [] doc_type = "cookie" -> "cookie_policy"
      [] doc_type = "eula" -> "eula"
      [] doc_type = "refund" -> "refund_policy"

\* the rule's slug, worked by hand: lowercased, spaces to underscores, every other
\* character kept, at most 20 characters, "document" for an unset name
SlugByRule(company_name) ==
    CASE company_name = S("Acme Inc") -> "acme_inc"
      [] company_name = S("Beta LLC") -> "beta_llc"
      [] company_name = S("Acme Corp!!") -> "acme_corp!!"
      [] company_name = S("International Widgets Holdings") -> "international_widget"
      [] OTHER -> "document"

\* every suggested file name follows the rule
FilenamesFollowRule ==
    \A i \in 1..Len(SuggestedDocuments) :
        LET d == SuggestedDocuments[i]
        IN  NamedAs(d.filename, SlugByRule(RequestedCompany), TypeLabel(d.doc_type), d.format)

C11_Truncated ==
    /\ SuggestedDocuments # <<>>
    /\ RequestedCompany = S("International Widgets Holdings")

----------------------------------------------------------------------------
(* The render step *)

\* the sections a generator has assembled when it joins them
SectionList(doc_type, config, now) ==
    CASE doc_type = "privacy" -> privacy_sections(config, now)
      [] doc_type = "tos" -> tos_sections(config, now)
      [] doc_type = "cookie" -> cookie_sections(config, now)
      [] doc_type = "eula" -> eula_sections(config, now)
      [] doc_type = "refund" -> refund_sections(config, now)

\* the lines between two joined sections: "\n\n".join puts an empty line, "\n".join none
Separator(doc_type) == IF doc_type \in {"eula", "refund"} THEN <<>> ELSE <<Blank>>

\* the last call returned a document in the markdown format
GeneratedMarkdown ==
    Generated /\ call.args.output_format = "markdown" /\ ~IsRaised(result)

\* C12: for the markdown format the render step is the identity: the artifact each
\* generator returns is the joined text of its sections, unchanged, for every
\* configuration.
C12_MarkdownIsJoinedSections ==
    GeneratedMarkdown =>
        result = JoinLines(SectionList(call.args.doc_type, call.args.config, clock),
                           Separator(call.args.doc_type))

\* a refund policy in markdown from an edited configuration
C12_Witness ==
    /\ GeneratedMarkdown
    /\ call.args.doc_type = "refund"
    /\ g_edited # {}
    /\ call.args.config = g_cfg
    /\ Len(result) > 10

----------------------------------------------------------------------------
(* Well-formedness of the HTML rendering *)

\* the tags and texts of one HTML line, and of a whole document
Tokens(line) == [i \in 1..Len(line.t) |-> line.t[i].s]
AllTokens(text) == Flatten([i \in 1..Len(text) |-> Tokens(text[i])], 1, Len(text))

InlineOpen == {"<h1>", "<h2>", "<h3>", "<strong>", "<li>"}
InlineClose == {"</h1>", "</h2>", "</h3>", "</strong>", "</li>"}
ListOpen == {"<ul>", "<ol>"}
ListClose == {"</ul>", "</ol>"}

CloseOf(tag) ==
    CASE tag = "<h1>" -> "</h1>" [] tag = "<h2>" -> "</h2>" [] tag = "<h3>" -> "</h3>"
      [] tag = "<strong>" -> "</strong>" [] tag = "<li>" -> "</li>"
      [] tag = "<ul>" -> "</ul>" [] tag = "<ol>" -> "</ol>"

RECURSIVE Nested(_, _)
\* the tags close in the reverse of the order they opened, none left open
Nested(tags, open) ==
    IF tags = <<>> THEN open = <<>>
    ELSE IF tags[1] \in InlineOpen THEN Nested(Tail(tags), <<tags[1]>> \o open)
    ELSE /\ open # <<>>
         /\ tags[1] = CloseOf(open[1])
         /\ Nested(Tail(tags), Tail(open))

\* every heading, bold span and list item a line opens is closed on that line
InlineClosed(text) ==
    \A i \in 1..Len(text) :
        Nested(SelectSeq(Tokens(text[i]), LAMBDA t : t \in InlineOpen \cup InlineClose), <<>>)

\* every list that opens is closed before another opens and before the document ends
ListsClosed(text) ==
    LET lists == SelectSeq(AllTokens(text), LAMBDA t : t \in ListOpen \cup ListClose)
    IN  /\ Len(lists) % 2 = 0
        /\ \A i \in 1..Len(lists) :
              i % 2 = 1 => lists[i] \in ListOpen /\ lists[i + 1] = CloseOf(lists[i])

\* every <li> follows the opening of a list or another item of it
ItemsInLists(text) ==
    LET marks == SelectSeq(AllTokens(text), LAMBDA t : t \in ListOpen \cup ListClose \cup {"<li>"})
    IN  \A i \in 1..Len(marks) :
            marks[i] = "<li>" => i > 1 /\ marks[i - 1] \in ListOpen \cup {"<li>"}

\* the document begins with the one <!DOCTYPE html> it holds
OneDoctype(text) ==
    /\ text # <<>>
    /\ text[1] = Raw("<!DOCTYPE html>")
    /\ Cardinality({i \in 1..Len(text) : \E j \in 1..Len(text[i].t) :
                        text[i].t[j].s = "<!DOCTYPE html>"}) = 1

WellFormed(text) ==
    OneDoctype(text) /\ InlineClosed(text) /\ ListsClosed(text) /\ ItemsInLists(text)

\* C13 as stated: for any input text the HTML rendering begins with exactly one
\* <!DOCTYPE html> and closes every heading, bold span, list item and list it opens;
\* every <li> lies inside a <ul> or <ol>, every list is closed by the end of the
\* document, and a bulleted and a numbered list are never open together.
C13_HtmlWellFormed == call.op = "convert_to_html" => WellFormed(result)

\* the documents the five generators render as HTML are well formed
GeneratedHtmlWellFormed ==
    (Generated /\ call.args.output_format = "html" /\ ~IsRaised(result)) => WellFormed(result)

----------------------------------------------------------------------------
(* Generation reads its configuration and leaves it as it was *)

\* a step is a request that runs the generators
GenerationRequest ==
    /\ ncalls' = ncalls + 1
    /\ call'.op \in {"generate_documents_v1", "preview_document_v1"}

\* C14: the generators only read the record passed to them: a generation or preview
\* request through the web API, which hands the session's record to generate_policy,
\* generate_tos, generate_cookie_policy, generate_eula or generate_refund_policy,
\* leaves every field of every stored configuration unchanged.
C14_GenerationReadsOnly == [][GenerationRequest => sessions' = sessions]_vars

\* documents were generated from a session whose record had been patched
C14_Witness ==
    /\ call.op = "generate_documents_v1"
    /\ result.status = 200
    /\ Len(result.body.documents) = 2
    /\ sessions[call.args.session_id] # get_default_config

----------------------------------------------------------------------------
(* set_business_info and reset_config on the five records *)

\* the keys set_business_info declares
DeclaredBusinessKeys ==
    {"platform_type", "business_type", "company_name", "country", "website_url",
     "website_name", "app_name", "company_address", "contact_email"}

\* `after` is `before` with each declared key it has set to the non-empty value given
\* for it, and every other field as it was
BusinessInfoSaved(before, after, args) ==
    /\ DOMAIN after = DOMAIN before
    /\ \A k \in DOMAIN before :
          after[k] = IF k \in DeclaredBusinessKeys /\ k \in DOMAIN args /\ Truthy(args[k])
                     THEN args[k] ELSE before[k]

C16_ResetRestoresDefaults ==
    call.op = "reset_config" =>
        /\ policy_config = Default_policy_config
        /\ tos_config = Default_tos_config
        /\ cookie_config = Default_cookie_config
        /\ eula_config = Default_eula_config
        /\ refund_config = Default_refund_config

----------------------------------------------------------------------------
(* Sessions of the REST API *)

\* a step is a request that names the session
RequestFor(session_id) ==
    /\ ncalls' = ncalls + 1
    /\ call'.args.session_id = session_id

\* C17: requests for different sessions are independent under any interleaving of
\* requests: creating, patching, resetting or generating for one session leaves the
\* stored configuration of every other session (and so the document generated from
\* it) as it was, and a newly created session starts from the default record,
\* whatever was written into the sessions before it.
C17_SessionsIndependent ==
    [][ \A session_id \in RequestIds :
            RequestFor(session_id) =>
                /\ \A other \in DOMAIN sessions \ {session_id} :
                      other \in DOMAIN sessions' /\ sessions'[other] = sessions[other]
                /\ DOMAIN sessions' \subseteq DOMAIN sessions \cup {session_id}
                /\ call'.op = "create_session_v1" =>
                      /\ session_id \notin DOMAIN sessions
                      /\ sessions'[session_id] = get_default_config
      ]_vars

\* two sessions, the second created after the first was patched: it holds the default
\* record, the first its patch
C17_Witness ==
    /\ call.op = "create_session_v1"
    /\ Cardinality(DOMAIN sessions) = 2
    /\ sessions[call.args.session_id] = get_default_config
    /\ \E other \in DOMAIN sessions : sessions[other] # get_default_config

----------------------------------------------------------------------------
(* The order of the sections *)

\* the section headings of each document type, in the order the generator appends
\* the sections (the two warranty sections of the EULA and the two refund sections
\* for digital and physical goods exclude each other)
SectionOrder(doc_type) ==
    CASE doc_type = "privacy" ->
            << "Introduction", "Information We Collect", "Tracking Technologies",
               "Social Media Login", "How We Use Your Information",
               "Marketing and Advertising", "Mobile Application Permissions",
               "Payment Processing", "Sharing Your Information", "Data Retention",
               "Data Security", "Your Privacy Rights", "Children's Privacy",
               "GDPR Privacy Rights (European Economic Area)",
               "CCPA Privacy Rights (California Residents)",
               "CalOPPA Compliance (California Online Privacy Protection Act)",
               "Changes to This Privacy Policy", "Contact Us" >>
      [] doc_type = "tos" ->
            << "Agreement to Terms", "Definitions", "Account Registration and Security",
               "Payments and Subscriptions", "User Content", "Acceptable Use Policy",
               "Intellectual Property Rights", "Third-Party Links and Services",
               "API Terms", "Disclaimers and Warranties", "Limitation of Liability",
               "Indemnification", "Termination", "Governing Law", "Dispute Resolution",
               "Changes to Terms", "Severability and Waiver", "Contact Us" >>
      [] doc_type = "cookie" ->
            << "Introduction", "What Are Cookies?", "How We Use Cookies",
               "Types of Cookies We Use", "Specific Cookies Used",
               "Third-Party Cookies", "Analytics", "Advertising and Targeting",
               "Social Media Cookies", "Managing Cookies", "Cookie Consent",
               "EU/GDPR Cookie Compliance", "Changes to This Cookie Policy",
               "Contact Us" >>
      [] doc_type = "eula" ->
            << "Introduction", "License Grant", "License Restrictions",
               "Intellectual Property Rights", "User Accounts", "Subscription Terms",
               "Free Trial", "Updates and Upgrades", "Data Collection and Privacy",
               "Third-Party Components", "Limited Warranty", "Disclaimer of Warranties",
               "Limitation of Liability", "Indemnification", "Term and Termination",
               "Export Compliance", "Governing Law and Disputes", "General Provisions",
               "Contact Information" >>
      [] doc_type = "refund" ->
            << "Introduction", "Satisfaction Guarantee",
               "Refund Policy for Digital Products/Services",
               "Return Policy for Physical Products", "Subscription Refunds",
               "How to Request a Refund", "Refund Processing",
               "Late or Missing Refunds", "Sale Items and Promotions",
               "Damaged or Defective Items", "Chargebacks and Disputes",
               "Your Legal Rights", "Exceptions and Special Circumstances",
               "Changes to This Policy", "Contact Us" >>

\* the "## " headings of a document, in the order they stand in it
SectionHeadings(text, output_format) ==
    IF output_format = "html"
    THEN LET at == SelectSeq([i \in 1..Len(text) |-> i],
                             LAMBDA i : Len(text[i].t) = 3 /\ text[i].t[1].s = "<h2>")
         IN  [n \in 1..Len(at) |-> text[at[n]].t[2].s]
    ELSE LET at == HeadingPositions(text)
         IN  [n \in 1..Len(at) |-> text[at[n]].t[1].s]

\* the place of a heading in the order of its document type (0: not one of them)
PlaceOf(doc_type, heading) ==
    LET order == SectionOrder(doc_type)
    IN  IF \E i \in 1..Len(order) : order[i] = heading
        THEN CHOOSE i \in 1..Len(order) : order[i] = heading
        ELSE 0

\* the headings follow the order of the document type, the contact section last
InSectionOrder(doc_type, headings) ==
    /\ headings # <<>>
    /\ \A n \in 1..Len(headings) : PlaceOf(doc_type, headings[n]) > 0
    /\ \A n \in 1..(Len(headings) - 1) :
          PlaceOf(doc_type, headings[n]) < PlaceOf(doc_type, headings[n + 1])
    /\ PlaceOf(doc_type, headings[Len(headings)]) = Len(SectionOrder(doc_type))

\* the title comes before every section, and an empty line stands before each section
HeaderFirstAndSeparated(text) ==
    LET at == HeadingPositions(text)
        titles == SelectSeq([i \in 1..Len(text) |-> i], LAMBDA i : text[i].k = "h1")
    IN  /\ Len(titles) = 1
        /\ \A i \in 1..(titles[1] - 1) : text[i].k = "blank"
        /\ \A n \in 1..Len(at) : at[n] > titles[1] + 1 /\ text[at[n] - 1].k = "blank"

\* C18: every generated document lists its sections in one fixed order per document
\* type: the header is first, the contact section is last, any two included sections
\* stand in the same relative order for every configuration, and consecutive sections
\* are separated by a blank line.
C18_FixedSectionOrder ==
    (Generated /\ ~IsRaised(result)) =>
        /\ InSectionOrder(call.args.doc_type,
                          SectionHeadings(result, call.args.output_format))
        /\ call.args.output_format = "markdown" => HeaderFirstAndSeparated(result)

\* a cookie policy with a conditional section between the fixed ones
C18_Witness ==
    /\ Generated
    /\ call.args.doc_type = "cookie"
    /\ call.args.output_format = "markdown"
    /\ g_edited # {}
    /\ \E n \in 1..Len(result) : result[n] = H2("Cookie Consent")
    /\ \E n \in 1..Len(result) : result[n] = H2("Analytics")

----------------------------------------------------------------------------
(* The Third-Party Cookies section of the cookie policy *)

\* a cookie policy came out of the generator
CookiePolicyGenerated ==
    Generated /\ call.args.doc_type = "cookie" /\ ~IsRaised(result)

\* the document has the section with this "## " heading
HasSection(heading) ==
    \E n \in 1..Len(SectionHeadings(result, call.args.output_format)) :
        SectionHeadings(result, call.args.output_format)[n] = heading

\* the flag is set to a true value in the configuration
FlagOn(config, key) == key \in DOMAIN config /\ config[key] = B(TRUE)

\* the configuration has a list under the key, and the list has an entry
NonEmptyList(config, key) ==
    key \in DOMAIN config /\ config[key].t = "list" /\ Len(config[key].v) > 0

\* the condition the section is documented to depend on
ThirdPartyCondition(config) ==
    \/ FlagOn(config, "uses_google_analytics")
    \/ FlagOn(config, "uses_facebook_pixel")
    \/ FlagOn(config, "uses_hotjar")
    \/ FlagOn(config, "uses_hubspot")
    \/ FlagOn(config, "uses_intercom")
    \/ FlagOn(config, "uses_advertising_cookies")
    \/ NonEmptyList(config, "third_party_cookies")

\* C19: the cookie policy has the Third-Party Cookies section if and only if one of
\* uses_google_analytics, uses_facebook_pixel, uses_hotjar, uses_hubspot,
\* uses_intercom, uses_advertising_cookies is true or third_party_cookies is
\* non-empty.
C19_ThirdPartySectionIff ==
    CookiePolicyGenerated =>
        (HasSection("Third-Party Cookies") <=> ThirdPartyCondition(call.args.config))

\* the section stands in a policy whose only reason for it is the list of named cookies
C19_Witness ==
    /\ CookiePolicyGenerated
    /\ HasSection("Third-Party Cookies")
    /\ NonEmptyList(call.args.config, "third_party_cookies")
    /\ \A i \in 1..Len(ProviderFlags) : ~FlagOn(call.args.config, ProviderFlags[i])
    /\ ~FlagOn(call.args.config, "uses_advertising_cookies")

\* a policy without the section although provider flags outside the condition are set
C19_WitnessAbsent ==
    /\ CookiePolicyGenerated
    /\ ~HasSection("Third-Party Cookies")
    /\ FlagOn(call.args.config, "uses_google_ads")
    /\ FlagOn(call.args.config, "uses_tiktok_pixel")

----------------------------------------------------------------------------
(* The provider descriptions of the Third-Party Cookies section *)

\* the providers in the order of the table, each with its flag, the name its
\* description starts with and the purpose the description gives
ProviderTable ==
    << [flag |-> "uses_google_analytics", name |-> "Google Analytics",
        purpose |-> "Purpose: Website analytics and performance measurement"],
       [flag |-> "uses_facebook_pixel", name |-> "Facebook Pixel",
        purpose |-> "Purpose: Advertising measurement and optimization"],
       [flag |-> "uses_google_ads", name |-> "Google Ads",
        purpose |-> "Purpose: Advertising and remarketing"],
       [flag |-> "uses_hotjar", name |-> "Hotjar",
        purpose |-> "Purpose: User behavior analytics (heatmaps, recordings)"],
       [flag |-> "uses_hubspot", name |-> "HubSpot",
        purpose |-> "Purpose: Marketing automation and CRM"],
       [flag |-> "uses_intercom", name |-> "Intercom",
        purpose |-> "Purpose: Customer messaging and support"],
       [flag |-> "uses_linkedin_insight", name |-> "LinkedIn Insight Tag",
        purpose |-> "Purpose: Advertising and analytics"],
       [flag |-> "uses_twitter_pixel", name |-> "Twitter/X Pixel",
        purpose |-> "Purpose: Advertising measurement"],
       [flag |-> "uses_tiktok_pixel", name |-> "TikTok Pixel",
        purpose |-> "Purpose: Advertising measurement"] >>

FallbackParagraph ==
    "We work with various third-party service providers. Please contact us for a complete list of third-party cookies used on our website."

\* the line is a "## " heading (an <h2> element in HTML)
IsSectionHeading(line, output_format) ==
    IF output_format = "html" THEN Len(line.t) = 3 /\ line.t[1].s = "<h2>"
    ELSE line.k = "h2"

\* the lines of the section under the heading, up to the next section
SectionLines(text, output_format, heading) ==
    LET starts == {i \in 1..Len(text) :
                      /\ IsSectionHeading(text[i], output_format)
                      /\ text[i].t[IF output_format = "html" THEN 2 ELSE 1].s = heading}
        start == CHOOSE i \in starts : TRUE
        later == {i \in (start + 1)..Len(text) : IsSectionHeading(text[i], output_format)}
        stop == IF later = {} THEN Len(text) + 1
                ELSE CHOOSE i \in later : \A j \in later : i <= j
    IN  IF starts = {} THEN <<>> ELSE SubSeq(text, start + 1, stop - 1)

\* the line is one bold name and nothing else
IsNameLine(line, output_format) ==
    IF output_format = "html"
    THEN Len(line.t) = 3 /\ line.t[1].s = "<strong>" /\ line.t[3].s = "</strong>"
    ELSE line.k = "p" /\ Len(line.t) = 1 /\ line.t[1].b

\* the text of a line without its markup
PlainText(line, output_format) ==
    IF output_format = "html"
    THEN LET words == SelectSeq(line.t, LAMBDA span :
                          span.s \notin {"<p>", "</p>", "<ul>", "</ul>", "<li>", "</li>",
                                         "<strong>", "</strong>"})
         IN  IF Len(words) = 1 THEN words[1].s ELSE ""
    ELSE IF Len(line.t) = 1 THEN line.t[1].s ELSE ""

\* the descriptions of a section: the name of each and the line that follows it
Descriptions(lines, output_format) ==
    LET at == SelectSeq([i \in 1..Len(lines) |-> i],
                        LAMBDA i : IsNameLine(lines[i], output_format))
    IN  [n \in 1..Len(at) |->
            [name |-> PlainText(lines[at[n]], output_format),
             purpose |-> IF at[n] < Len(lines)
                         THEN PlainText(lines[at[n] + 1], output_format) ELSE ""]]

\* the descriptions the table gives for the flags that are on, in the table's order
ExpectedDescriptions(config) ==
    LET on == SelectSeq(ProviderTable, LAMBDA entry : FlagOn(config, entry.flag))
    IN  [n \in 1..Len(on) |-> [name |-> on[n].name, purpose |-> on[n].purpose]]

HasFallback(lines, output_format) ==
    \E i \in 1..Len(lines) : PlainText(lines[i], output_format) = FallbackParagraph

\* C20: when the cookie policy has the third-party section, the section holds exactly
\* one description for each provider flag that is enabled and none for a disabled one,
\* in the order of the table (Google Analytics, Facebook Pixel, Google Ads, Hotjar,
\* HubSpot, Intercom, LinkedIn Insight, Twitter/X Pixel, TikTok Pixel), and it holds
\* the generic fallback paragraph if and only if no provider flag is enabled.
C20_ProviderDescriptions ==
    (CookiePolicyGenerated /\ HasSection("Third-Party Cookies")) =>
        LET lines == SectionLines(result, call.args.output_format, "Third-Party Cookies")
        IN  /\ Descriptions(lines, call.args.output_format)
                 = ExpectedDescriptions(call.args.config)
            /\ HasFallback(lines, call.args.output_format)
                 <=> ExpectedDescriptions(call.args.config) = <<>>

\* a section with three descriptions, the first and the last of the table among them,
\* and other providers left out
C20_Witness ==
    /\ CookiePolicyGenerated
    /\ HasSection("Third-Party Cookies")
    /\ FlagOn(call.args.config, "uses_google_analytics")
    /\ FlagOn(call.args.config, "uses_tiktok_pixel")
    /\ ~FlagOn(call.args.config, "uses_facebook_pixel")
    /\ Len(Descriptions(SectionLines(result, call.args.output_format,
                                     "Third-Party Cookies"),
                        call.args.output_format)) = 3

\* a section that holds the fallback paragraph and no description
C20_WitnessFallback ==
    /\ CookiePolicyGenerated
    /\ HasSection("Third-Party Cookies")
    /\ HasFallback(SectionLines(result, call.args.output_format, "Third-Party Cookies"),
                   call.args.output_format)
    /\ Descriptions(SectionLines(result, call.args.output_format, "Third-Party Cookies"),
                    call.args.output_format) = <<>>

----------------------------------------------------------------------------
(* The grant of license in the EULA *)

EulaGenerated == Generated /\ call.args.doc_type = "eula"

\* the texts of the lines of a section, markup left out
SectionTexts(heading) ==
    LET lines == SectionLines(result, call.args.output_format, heading)
    IN  {PlainText(lines[i], call.args.output_format) : i \in 1..Len(lines)}

\* the sentence that grants the license, for the phrase that names the license
GrantSentence(config, license_text) ==
    "Subject to the terms and conditions of this Agreement, "
        \o (IF "company_name" \in DOMAIN config /\ Truthy(config["company_name"])
            THEN config["company_name"].v ELSE "Company")
        \o " hereby grants you " \o license_text \o " to:"

PerpetualGrant == "a perpetual, non-exclusive license"
SubscriptionGrant == "a limited, non-exclusive, subscription-based license"
GeneralGrant == "a limited, non-exclusive license"

\* the License Grant section holds the sentence with this phrase and with no other
GrantsOnly(config, license_text) ==
    \A phrase \in {PerpetualGrant, SubscriptionGrant, GeneralGrant} :
        GrantSentence(config, phrase) \in SectionTexts("License Grant")
            <=> phrase = license_text

\* the outcome of generation does not turn into an error by the choice of license_type
NoErrorFromLicenseType ==
    IsRaised(result) =>
        IsRaised(generate_eula(Put(call.args.config, "license_type", Absent),
                               call.args.output_format, clock))

\* C21 as stated: generate_eula selects the grant-of-license sentence from
\* license_type: 'perpetual' and 'subscription' select their own sentence and every
\* other value, an unset license_type included, selects the general 'a limited,
\* non-exclusive license' sentence; no value of license_type causes an error.
C21_UnsetSelectsGeneral ==
    EulaGenerated =>
        /\ NoErrorFromLicenseType
        /\ ~IsRaised(result) =>
              LET config == call.args.config
              IN  GrantsOnly(config,
                     IF Get(config, "license_type") = S("perpetual") THEN PerpetualGrant
                     ELSE IF Get(config, "license_type") = S("subscription")
                     THEN SubscriptionGrant
                     ELSE GeneralGrant)

\* C21 amended: as above for every value the configuration holds under license_type,
\* None and the empty string included; a configuration without the key license_type
\* selects the subscription sentence.
C21_MissingSelectsSubscription ==
    EulaGenerated =>
        /\ NoErrorFromLicenseType
        /\ ~IsRaised(result) =>
              LET config == call.args.config
              IN  GrantsOnly(config,
                     IF "license_type" \notin DOMAIN config THEN SubscriptionGrant
                     ELSE IF config["license_type"] = S("perpetual") THEN PerpetualGrant
                     ELSE IF config["license_type"] = S("subscription")
                     THEN SubscriptionGrant
                     ELSE GeneralGrant)

\* an EULA generated from a configuration without license_type
C21_Witness ==
    /\ EulaGenerated
    /\ ~IsRaised(result)
    /\ "license_type" \notin DOMAIN call.args.config
    /\ GrantSentence(call.args.config, SubscriptionGrant) \in SectionTexts("License Grant")

\* an EULA with the general sentence for a license type that is neither of the two
C21_WitnessGeneral ==
    /\ EulaGenerated
    /\ Get(call.args.config, "license_type") = S("freemium")
    /\ GrantSentence(call.args.config, GeneralGrant) \in SectionTexts("License Grant")

----------------------------------------------------------------------------
(* The Subscription Terms section of the EULA *)

\* C22: the EULA has the Subscription Terms section if and only if is_subscription
\* is true in the configuration, whatever license_type, billing_cycle and
\* auto_renewal are.
C22_SubscriptionTermsIff ==
    (EulaGenerated /\ ~IsRaised(result)) =>
        (HasSection("Subscription Terms") <=> FlagOn(call.args.config, "is_subscription"))

\* the section in an EULA for a perpetual license without automatic renewal
C22_Witness ==
    /\ EulaGenerated
    /\ HasSection("Subscription Terms")
    /\ Get(call.args.config, "license_type") = S("perpetual")
    /\ Get(call.args.config, "auto_renewal") = B(FALSE)
    /\ "billing_cycle" \notin DOMAIN call.args.config

\* no section in an EULA for a subscription license billed monthly and renewed
C22_WitnessAbsent ==
    /\ EulaGenerated
    /\ ~IsRaised(result)
    /\ ~HasSection("Subscription Terms")
    /\ Get(call.args.config, "license_type") = S("subscription")
    /\ Get(call.args.config, "billing_cycle") = S("monthly")
    /\ Get(call.args.config, "auto_renewal") = B(TRUE)

----------------------------------------------------------------------------
(* The company name in the header *)

\* the line shows one bold text and nothing else
IsBoldLine(line, output_format) ==
    IF output_format = "html"
    THEN /\ \E i \in 1..Len(line.t) : line.t[i].s = "<strong>"
         /\ PlainText(line, output_format) # ""
    ELSE IsNameLine(line, output_format)

\* the first bold line of a document: the name under its title
HeaderName(text, output_format) ==
    LET at == SelectSeq([i \in 1..Len(text) |-> i],
                        LAMBDA i : IsBoldLine(text[i], output_format))
    IN  IF at = <<>> THEN "" ELSE PlainText(text[at[1]], output_format)

\* the first of the keys with a non-empty text in the configuration, else the literal
FirstNonEmpty(config, keys, literal) ==
    LET set == SelectSeq(keys, LAMBDA key : key \in DOMAIN config /\ Truthy(config[key]))
    IN  IF set = <<>> THEN literal ELSE config[set[1]].v

\* C23 as stated: the company name in the header of every document type follows the
\* chain company_name if non-empty, else website_name if non-empty, else app_name if
\* non-empty, else the literal 'Our Company'.
C23_OneChainForAllTypes ==
    (Generated /\ ~IsRaised(result)) =>
        HeaderName(result, call.args.output_format)
            = FirstNonEmpty(call.args.config,
                            <<"company_name", "website_name", "app_name">>, "Our Company")

\* the chain of each document type
HeaderChain(doc_type) ==
    CASE doc_type \in {"privacy", "tos"} -> <<"company_name", "website_name", "app_name">>
      [] doc_type = "cookie" -> <<"company_name", "website_name">>
      [] doc_type \in {"eula", "refund"} -> <<"company_name">>

HeaderLiteral(doc_type) == IF doc_type \in {"eula", "refund"} THEN "Company" ELSE "Our Company"

\* C23 amended: the header of the privacy policy and of the terms of service shows
\* company_name if non-empty, else website_name if non-empty, else app_name if
\* non-empty, else 'Our Company'; the header of the cookie policy shows company_name,
\* else website_name, else 'Our Company'; the header of the EULA and of the refund
\* policy shows company_name, else 'Company'.
C23_ChainPerType ==
    (Generated /\ ~IsRaised(result)) =>
        HeaderName(result, call.args.output_format)
            = FirstNonEmpty(call.args.config, HeaderChain(call.args.doc_type),
                            HeaderLiteral(call.args.doc_type))

\* a privacy policy headed by the application's name, the two names before it unset
C23_Witness ==
    /\ Generated
    /\ call.args.doc_type = "privacy"
    /\ Get(call.args.config, "company_name") = S("")
    /\ "website_name" \notin DOMAIN call.args.config
    /\ HeaderName(result, call.args.output_format) = "AcmeApp"

\* an EULA headed 'Company' although the website has a name
C23_WitnessEula ==
    /\ Generated
    /\ call.args.doc_type = "eula"
    /\ Get(call.args.config, "website_name") = S("Acme Shop")
    /\ HeaderName(result, call.args.output_format) = "Company"

----------------------------------------------------------------------------
(* What a configuration-setting tool leaves alone *)

SetTools ==
    PolicyTools \cup TosTools \cup CookieTools \cup EulaTools \cup RefundTools
        \cup {"set_business_info", "set_social_logins", "set_payment_settings",
              "set_data_sharing", "set_tos_payment_options", "set_tos_user_content",
              "set_cookie_analytics", "set_cookie_advertising", "set_cookie_social",
              "set_cookie_third_party", "set_refund_sale_items"}

\* the fields an argument dictionary names: its keys, and for set_social_logins the
\* social_login_<network> field of each network it names
NamedFields(tool, args) ==
    IF tool = "set_social_logins"
    THEN {"social_login_facebook" : k \in {"facebook"} \cap DOMAIN args}
         \cup {"social_login_google" : k \in {"google"} \cap DOMAIN args}
         \cup {"social_login_twitter" : k \in {"twitter"} \cap DOMAIN args}
         \cup {"social_login_github" : k \in {"github"} \cap DOMAIN args}
         \cup {"social_login_linkedin" : k \in {"linkedin"} \cap DOMAIN args}
    ELSE DOMAIN args

\* every field outside `named` is in `after` what it was in `before`
OthersKept(before, after, named) ==
    /\ (DOMAIN after) \ named = (DOMAIN before) \ named
    /\ \A k \in (DOMAIN before) \ named : after[k] = before[k]

\* C24: a configuration-setting tool changes only the fields supplied in its
\* arguments: after any set_* call, every field of every configuration record that the
\* call's arguments did not name has the value it had before the call.
C24_OnlySuppliedFieldsChange ==
    [][ (ncalls' = ncalls + 1 /\ call'.op \in SetTools) =>
            \A records \in {<<policy_config, policy_config'>>, <<tos_config, tos_config'>>,
                            <<cookie_config, cookie_config'>>, <<eula_config, eula_config'>>,
                            <<refund_config, refund_config'>>} :
                OthersKept(records[1], records[2], NamedFields(call'.op, call'.args))
      ]_vars

\* the tools written as one loop over the supplied arguments do keep the other fields
LoopToolsKeepOthers ==
    [][ (ncalls' = ncalls + 1 /\ call'.op \in PolicyTools \cup TosTools \cup CookieTools
                                    \cup EulaTools \cup RefundTools
                                    \cup {"set_business_info", "set_social_logins"}) =>
            \A records \in {<<policy_config, policy_config'>>, <<tos_config, tos_config'>>,
                            <<cookie_config, cookie_config'>>, <<eula_config, eula_config'>>,
                            <<refund_config, refund_config'>>} :
                OthersKept(records[1], records[2], NamedFields(call'.op, call'.args))
      ]_vars

----------------------------------------------------------------------------
(* The business type of the refund policy *)

\* the values set_refund_general documents for business_type
RefundBusinessTypes == {S("products"), S("services"), S("digital"), S("subscription")}

DigitalHeading == "Refund Policy for Digital Products/Services"
PhysicalHeading == "Return Policy for Physical Products"

\* the document has one of the two sections that state the refund or return terms
HasRefundTerms(text, output_format) ==
    \E n \in 1..Len(SectionHeadings(text, output_format)) :
        SectionHeadings(text, output_format)[n] \in {DigitalHeading, PhysicalHeading}

\* C25: in every state reached by tool calls with documented argument values,
\* refund_config's business_type is one of products, services, digital, subscription,
\* so a generated refund policy has the digital/services refund section or the
\* physical-products return section.
C25_RefundBusinessTypeDocumented ==
    /\ Get(refund_config, "business_type") \in RefundBusinessTypes
    /\ call.op = "generate_refund_policy" =>
          \A file \in written :
              HasRefundTerms(file.content,
                             IF Get(call.args, "output_format") = S("html")
                             THEN "html" ELSE "markdown")

\* where business_type is written by the refund tools and reset_config only, it stays
\* among the documented values
RefundToolsKeepDocumentedType ==
    [][ (Get(refund_config, "business_type") \in RefundBusinessTypes
            /\ call'.op # "set_business_info")
          => Get(refund_config', "business_type") \in RefundBusinessTypes ]_vars

\* C26: for a web-API session that holds the default configuration, the generated
\* refund policy has the 'Refund Policy for Digital Products/Services' section.
C26_DefaultSessionRefundsDigital ==
    (/\ call.op = "generate_documents_v1"
     /\ result.status = 200
     /\ sessions[call.args.session_id] = get_default_config) =>
        \A i \in 1..Len(result.body.documents) :
            LET d == result.body.documents[i]
            IN  d.doc_type = "refund" =>
                    \E n \in 1..Len(SectionHeadings(d.content, d.format)) :
                        SectionHeadings(d.content, d.format)[n] = DigitalHeading

----------------------------------------------------------------------------
(* Requests for a session the store does not hold *)

SessionScoped == {"get_session_v1", "update_config_v1", "reset_session_v1",
                  "generate_documents_v1", "preview_document_v1"}

\* the step serves a session-scoped request for an id that is not in the store
UnknownSessionRequest ==
    /\ ncalls' = ncalls + 1
    /\ call'.op \in SessionScoped
    /\ call'.args.session_id \notin DOMAIN sessions

\* C27: a session-scoped operation (get, patch config, reset, generate, preview) on
\* a session id that is not in the store returns an error and leaves the store
\* unchanged; only session creation adds an entry to the store.
C27_UnknownSessionRefused ==
    [][ /\ UnknownSessionRequest => (result'.status >= 400 /\ sessions' = sessions)
        /\ (DOMAIN sessions' # DOMAIN sessions) => call'.op = "create_session_v1"
      ]_vars

\* get, patch, generate and preview do refuse an unknown session and leave the store
UnknownSessionRefusedButReset ==
    [][ (UnknownSessionRequest /\ call'.op # "reset_session_v1")
            => (result'.status >= 400 /\ sessions' = sessions) ]_vars

----------------------------------------------------------------------------
(* The provider flags of cookie_config and the generated cookie policy *)

\* the document generate_cookie_policy produces in this state
CookiePolicyNow ==
    generate_cookie_policy(merge_into_cookie(policy_config, cookie_config), "markdown", clock)

\* the names of the descriptions in the Third-Party Cookies section of a document
DescribedProviders(text) ==
    LET described == Descriptions(SectionLines(text, "markdown", "Third-Party Cookies"),
                                  "markdown")
    IN  {described[n].name : n \in 1..Len(described)}

\* every provider whose flag is on in the record is described in the document
EnabledProvidersDescribed(config, text) ==
    \A n \in 1..Len(ProviderTable) :
        FlagOn(config, ProviderTable[n].flag) =>
            ProviderTable[n].name \in DescribedProviders(text)

\* C28: after any sequence of cookie tool calls (set_cookie_types,
\* set_cookie_analytics, set_cookie_advertising, set_cookie_social,
\* set_cookie_third_party, set_cookie_consent, reset_config), every third-party
\* provider flag that is true in cookie_config has its description paragraph in the
\* document generate_cookie_policy produces.
C28_EnabledProvidersDescribed ==
    /\ EnabledProvidersDescribed(cookie_config, CookiePolicyNow)
    /\ (call.op = "generate_cookie_policy" /\ Get(call.args, "output_format") # S("html")) =>
          \A file \in written : EnabledProvidersDescribed(cookie_config, file.content)

\* the providers that the section's own condition names are always described
ConditionProvidersDescribed ==
    \A n \in 1..Len(ProviderTable) :
        (/\ FlagOn(cookie_config, ProviderTable[n].flag)
         /\ ProviderTable[n].flag \in {"uses_google_analytics", "uses_facebook_pixel",
                                       "uses_hotjar", "uses_hubspot", "uses_intercom"})
            => ProviderTable[n].name \in DescribedProviders(CookiePolicyNow)

----------------------------------------------------------------------------
(* The warranty section of the EULA *)

\* the section headings of the generated document that are the given one
CountSections(heading) ==
    Len(SelectSeq(SectionHeadings(result, call.args.output_format),
                  LAMBDA h : h = heading))

\* C29: every generated EULA has exactly one of the 'Limited Warranty' and
\* 'Disclaimer of Warranties' sections, and it has 'Limited Warranty' if and only if
\* has_warranty is true in the configuration.
C29_LimitedWarrantyIffHasWarranty ==
    (EulaGenerated /\ ~IsRaised(result)) =>
        /\ CountSections("Limited Warranty") + CountSections("Disclaimer of Warranties") = 1
        /\ CountSections("Limited Warranty") = 1 <=> FlagOn(call.args.config, "has_warranty")

\* what the generator does: one of the two sections, chosen by warranty_period alone
WarrantyFollowsPeriod ==
    (EulaGenerated /\ ~IsRaised(result)) =>
        /\ CountSections("Limited Warranty") + CountSections("Disclaimer of Warranties") = 1
        /\ CountSections("Limited Warranty") = 1
              <=> Truthy(Get(call.args.config, "warranty_period"))

----------------------------------------------------------------------------
(* The payment processors in the privacy and the terms records *)

\* C30: in every state reached by any sequence of tool calls, the payment_processors
\* list of the privacy configuration equals that of the terms-of-service
\* configuration.
C30_PaymentProcessorsAgree ==
    Get(policy_config, "payment_processors") = Get(tos_config, "payment_processors")

\* set_tos_payment_options was given two processors: both records hold them
C30_Witness ==
    /\ call.op = "set_tos_payment_options"
    /\ Get(call.args, "payment_processors") = S("Stripe, PayPal")
    /\ Get(policy_config, "payment_processors") = L(<<"Stripe", "PayPal">>)
    /\ Get(tos_config, "payment_processors") = L(<<"Stripe", "PayPal">>)
====
